---- MODULE Spec2Model ----
(***************************************************************************)
(* A model of the two core components of command-t's C library:            *)
(*   - heap.c      the fixed-capacity binary heap (bounded priority queue) *)
(*   - watchman.c  the BSER codec, the transport and the query operations  *)
(*                                                                         *)
(* The specifications share one set of variables:                          *)
(*   HeapSpec       heap_insert / heap_extract, called in any order, on a  *)
(*                  heap made by heap_new                                  *)
(*   HeapStreamSpec a stream of values fed to heap_insert, then drained    *)
(*                  with heap_extract; it records the stream               *)
(*   CodecSpec      the decode operations of watchman.c run on a response  *)
(*                  that holds an encoded value                            *)
(*   TransportSpec  commandt_watchman_watch_project and                    *)
(*                  commandt_watchman_query against a daemon on a socket   *)
(*   RoundTripSpec  integers and strings written to a request and read     *)
(*                  back                                                   *)
(*   TruncSpec      the decode operations on a response cut short          *)
(*   RawSpec        the decode operations on arbitrary bytes               *)
(*   AppendSpec     watchman_append on the request watchman_init returns   *)
(*   HeapStepSpec   heap_insert / heap_extract one loop iteration and one  *)
(*                  heap_heapify call at a time (FairHeapStepSpec: a call  *)
(*                  that has begun keeps running)                          *)
(*   ConnectSpec    commandt_watchman_connect / _disconnect against the    *)
(*                  descriptor table of the process                        *)
(* Each specification leaves the variables of the other components at     *)
(* their idle values.                                                      *)
(***************************************************************************)
EXTENDS Integers, Sequences, FiniteSets, Bags, TLC

VARIABLES
    \* ---- heap_t (heap.h) and the observations made of it ----
    capacity,       \* heap->capacity
    comparator,     \* heap->comparator (the name of the function supplied)
    count,          \* heap->count
    entries,        \* heap->entries, a function on 0..capacity-1
    lastOp,         \* the heap call that returned last
    arg,            \* the value handed to the last heap_insert
    extracted,      \* the value the last heap_extract returned
    touched,        \* the entries[] indices the last call read or wrote
    \* ---- the record HeapStreamSpec keeps of its calls ----
    stream,         \* every value handed to heap_insert, in call order
    accepted,       \* the values heap_insert stored (count < capacity)
    out,            \* the non-NULL values heap_extract returned, in order
    \* ---- watchman_response_t under the decode operations ----
    rPayload,       \* r->payload, the bytes of the response
    rPtr,           \* r->ptr, as an offset into r->payload
    rEnd,           \* r->end, as an offset into r->payload
    decoding,       \* "idle", "live", or "aborted" once a decode called abort()
    lastDecode,     \* the decode operation that ran last
    entryPtr,       \* r->ptr on entry to that operation
    decoded,        \* the value that operation returned
    readTop,        \* the offset just past the last byte that operation read
    encoded,        \* the value whose encoding r->payload was filled with
    \* ---- the process calling the query operations, and its socket ----
    proc,           \* "running", "aborted" (abort()) or "crashed" (signal)
    ncalls,         \* the number of query operations called so far
    sock,           \* bytes the daemon has written that no recv() consumed
    call,           \* the query operation called last
    wire,           \* the bytes that call handed to send()
    response,       \* what watchman_send_query returned to that call
    outcome,        \* how that call ended
    result,         \* the result struct that call returned
    exchange,       \* what the daemon answered to that call
    allocs,         \* the buffers that call allocated, and how often it freed them
    \* ---- watchman_request_t under watchman_append ----
    request,        \* w->payload (its logical content), w->capacity, w->length
    storage,        \* the block w->payload points at: its size, and whether live
    appended,       \* the last watchman_append: where it wrote, and how much
    \* ---- heap_insert / heap_extract taken one loop iteration at a time ----
    hpc,            \* "idle", "sift_up" (loop of heap_insert) or "heapify"
    hidx,           \* idx of the running loop iteration / heap_heapify call
    hcall,          \* the call under way: its name, its argument, the heap on entry
    reads,          \* the slots that call read or compared, with count at that time
    \* ---- the descriptors of the process, under commandt_watchman_connect ----
    fds,            \* the open descriptors: fd -> [flags, connected]
    conn            \* the last connect / disconnect call and what it returned

heapVars == <<capacity, comparator, count, entries, lastOp, arg, extracted,
              touched>>
streamVars == <<stream, accepted, out>>

codecVars == <<rPayload, rPtr, rEnd, decoding, lastDecode, entryPtr, decoded,
               readTop, encoded>>

queryVars == <<proc, ncalls, sock, call, wire, response, outcome, result,
               exchange, allocs>>

requestVars == <<request, storage, appended>>

stepVars == <<hpc, hidx, hcall, reads>>

socketVars == <<fds, conn>>

otherVars == <<requestVars, stepVars, socketVars>>

vars == <<heapVars, streamVars, codecVars, queryVars, otherVars>>

(***************************************************************************)
(* Bounds of the model.                                                    *)
(***************************************************************************)
MaxCapacity == 4
MaxVal == 4
MaxStream == 5
MaxCount == 2
MaxDepth == 1
MaxCalls == 2
MaxPairs == 3
MaxStrLen == 2

(***************************************************************************)
(* heap.c                                                                  *)
(***************************************************************************)
\* A null pointer; entries are non-null pointers, modelled as 1..MaxVal.
NULL == 0

\* The content of a slot of xmalloc'ed storage that was never written.
Uninit == -1

\* (2^32 - 1) / 2: what HEAP_PARENT gives for index 0 in unsigned arithmetic.
UINT_MAX_HALF == 2147483647

\* #define HEAP_PARENT(index) ((index - 1) / 2), on `unsigned`
HEAP_PARENT(index) == IF index = 0 THEN UINT_MAX_HALF ELSE (index - 1) \div 2
\* #define HEAP_LEFT(index) (2 * index + 1)
HEAP_LEFT(index) == 2 * index + 1
\* #define HEAP_RIGHT(index) (2 * index + 2)
HEAP_RIGHT(index) == 2 * index + 2

\* The comparators a caller can hand to heap_new.  The first two are total
\* orders on the entries (parent before child when the result is > 0); the
\* last two are not.
TotalComparators == {"min_first", "max_first"}
Comparators == TotalComparators \cup {"always_zero", "inconsistent"}

\* heap->comparator(a, b)
Compare(cmp, a, b) ==
    CASE cmp = "min_first"    -> b - a
      [] cmp = "max_first"    -> a - b
      [] cmp = "always_zero"  -> 0
      [] cmp = "inconsistent" -> IF a = b THEN 1 ELSE -1

heap_compare(cmp, ents, a_idx, b_idx) == Compare(cmp, ents[a_idx], ents[b_idx])

heap_property(cmp, ents, parent_idx, child_idx) ==
    heap_compare(cmp, ents, parent_idx, child_idx) > 0

\* heap_swap copying one slot over the other instead of exchanging them.
heap_swap_copy(ents, a, b) == [ents EXCEPT ![a] = ents[b]]

heap_swap(ents, a, b) == [ents EXCEPT ![a] = ents[b], ![b] = ents[a]]

\* The loop of heap_insert: st = [entries, touched].
RECURSIVE BubbleUp(_, _, _, _)
BubbleUp(cmp, st, idx, parent_idx) ==
    IF idx = 0
    THEN st
    ELSE LET seen == [st EXCEPT !.touched = @ \cup {idx, parent_idx}]
         IN  IF heap_property(cmp, st.entries, parent_idx, idx)
             THEN seen
             ELSE BubbleUp(cmp,
                           [seen EXCEPT !.entries = heap_swap(@, idx, parent_idx)],
                           parent_idx, HEAP_PARENT(parent_idx))

\* heap_heapify choosing the other child when both exist.
RECURSIVE heap_heapify_other_child(_, _, _, _)
heap_heapify_other_child(cmp, st, cnt, idx) ==
    LET left_idx == HEAP_LEFT(idx)
        right_idx == HEAP_RIGHT(idx)
        smallest_idx ==
            IF right_idx < cnt
            THEN (IF heap_compare(cmp, st.entries, left_idx, right_idx) > 0
                  THEN right_idx ELSE left_idx)
            ELSE IF left_idx < cnt THEN left_idx ELSE idx
        st1 == IF right_idx < cnt
               THEN [st EXCEPT !.touched = @ \cup {left_idx, right_idx}]
               ELSE st
    IN  IF smallest_idx # idx
        THEN LET st2 == [st1 EXCEPT !.touched = @ \cup {idx, smallest_idx}]
             IN  IF ~heap_property(cmp, st1.entries, idx, smallest_idx)
                 THEN heap_heapify_other_child(cmp,
                          [st2 EXCEPT !.entries = heap_swap(@, idx, smallest_idx)],
                          cnt, smallest_idx)
                 ELSE st2
        ELSE st1

\* heap_heapify(heap, idx) with heap->count = cnt.
RECURSIVE heap_heapify(_, _, _, _)
heap_heapify(cmp, st, cnt, idx) ==
    LET left_idx == HEAP_LEFT(idx)
        right_idx == HEAP_RIGHT(idx)
        smallest_idx ==
            IF right_idx < cnt
            THEN (IF heap_compare(cmp, st.entries, left_idx, right_idx) > 0
                  THEN left_idx ELSE right_idx)
            ELSE IF left_idx < cnt THEN left_idx ELSE idx
        st1 == IF right_idx < cnt
               THEN [st EXCEPT !.touched = @ \cup {left_idx, right_idx}]
               ELSE st
    IN  IF smallest_idx # idx
        THEN LET st2 == [st1 EXCEPT !.touched = @ \cup {idx, smallest_idx}]
             IN  IF ~heap_property(cmp, st1.entries, idx, smallest_idx)
                 THEN heap_heapify(cmp,
                          [st2 EXCEPT !.entries = heap_swap(@, idx, smallest_idx)],
                          cnt, smallest_idx)
                 ELSE st2
        ELSE st1

\* Mutant of heap_insert: count is incremented before the capacity check.
heap_insert_count_first(h, value) ==
    IF h.count = h.capacity
    THEN [count |-> h.count + 1, entries |-> h.entries, touched |-> {},
          stored |-> FALSE]
    ELSE LET idx == h.count
             st0 == [entries |-> [h.entries EXCEPT ![idx] = value],
                     touched |-> {idx}]
             st1 == BubbleUp(h.comparator, st0, idx, HEAP_PARENT(idx))
         IN  [count |-> h.count + 1, entries |-> st1.entries,
              touched |-> st1.touched, stored |-> TRUE]

\* Mutant of heap_insert: a full heap lets the new value displace its root.
heap_insert_displace_root(h, value) ==
    IF h.count = h.capacity
    THEN IF h.count = 0
         THEN [count |-> h.count, entries |-> h.entries, touched |-> {},
               stored |-> FALSE]
         ELSE LET st1 == heap_heapify(h.comparator,
                             [entries |-> [h.entries EXCEPT ![0] = value],
                              touched |-> {0}], h.count, 0)
              IN  [count |-> h.count, entries |-> st1.entries,
                   touched |-> st1.touched, stored |-> FALSE]
    ELSE LET idx == h.count
             st0 == [entries |-> [h.entries EXCEPT ![idx] = value],
                     touched |-> {idx}]
             st1 == BubbleUp(h.comparator, st0, idx, HEAP_PARENT(idx))
         IN  [count |-> h.count + 1, entries |-> st1.entries,
              touched |-> st1.touched, stored |-> TRUE]

\* Mutant of heap_insert: a full heap overwrites its last slot.
heap_insert_overwrite_last(h, value) ==
    IF h.count = h.capacity
    THEN [count |-> h.count,
          entries |-> IF h.count = 0 THEN h.entries
                      ELSE [h.entries EXCEPT ![h.count - 1] = value],
          touched |-> IF h.count = 0 THEN {} ELSE {h.count - 1},
          stored |-> FALSE]
    ELSE LET idx == h.count
             st0 == [entries |-> [h.entries EXCEPT ![idx] = value],
                     touched |-> {idx}]
             st1 == BubbleUp(h.comparator, st0, idx, HEAP_PARENT(idx))
         IN  [count |-> h.count + 1, entries |-> st1.entries,
              touched |-> st1.touched, stored |-> TRUE]

\* heap_insert on h = [capacity, comparator, count, entries]; the result adds
\* `touched` (slots accessed) and `stored` (whether the value was taken).
heap_insert(h, value) ==
    IF h.count = h.capacity
    THEN [count |-> h.count, entries |-> h.entries, touched |-> {},
          stored |-> FALSE]
    ELSE LET idx == h.count
             st0 == [entries |-> [h.entries EXCEPT ![idx] = value],
                     touched |-> {idx}]
             st1 == BubbleUp(h.comparator, st0, idx, HEAP_PARENT(idx))
         IN  [count |-> h.count + 1, entries |-> st1.entries,
              touched |-> st1.touched, stored |-> TRUE]

\* Mutant of heap_extract: the heap property is not restored afterwards.
heap_extract_no_heapify(h) ==
    IF h.count # 0
    THEN [count |-> h.count - 1,
          entries |-> [h.entries EXCEPT ![0] = h.entries[h.count - 1]],
          touched |-> {0, h.count - 1}, extracted |-> h.entries[0]]
    ELSE [count |-> h.count, entries |-> h.entries, touched |-> {},
          extracted |-> NULL]

\* Mutant of heap_extract: the root is read before count is tested.
heap_extract_read_first(h) ==
    IF h.count # 0
    THEN LET st0 == [entries |-> [h.entries EXCEPT ![0] = h.entries[h.count - 1]],
                     touched |-> {0, h.count - 1}]
             st1 == heap_heapify(h.comparator, st0, h.count - 1, 0)
         IN  [count |-> h.count - 1, entries |-> st1.entries,
              touched |-> st1.touched, extracted |-> h.entries[0]]
    ELSE IF h.capacity # 0
         THEN [count |-> h.count, entries |-> h.entries, touched |-> {0},
               extracted |-> h.entries[0]]
         ELSE [count |-> h.count, entries |-> h.entries, touched |-> {},
               extracted |-> NULL]

\* heap_extract on h; the result adds `extracted` and `touched`.
heap_extract(h) ==
    IF h.count # 0
    THEN LET st0 == [entries |-> [h.entries EXCEPT ![0] = h.entries[h.count - 1]],
                     touched |-> {0, h.count - 1}]
             st1 == heap_heapify(h.comparator, st0, h.count - 1, 0)
         IN  [count |-> h.count - 1, entries |-> st1.entries,
              touched |-> st1.touched, extracted |-> h.entries[0]]
    ELSE [count |-> h.count, entries |-> h.entries, touched |-> {},
          extracted |-> NULL]

Heap == [capacity |-> capacity, comparator |-> comparator,
         count |-> count, entries |-> entries]

\* heap_new(capacity, comparator)
heap_new(cap, cmp) ==
    /\ capacity = cap
    /\ comparator = cmp
    /\ count = 0
    /\ entries = [i \in 0..(cap - 1) |-> Uninit]
    /\ lastOp = "heap_new"
    /\ arg = NULL
    /\ extracted = NULL
    /\ touched = {}

IdleStream == stream = <<>> /\ accepted = <<>> /\ out = <<>>

\* No response is being decoded.
IdleCodec ==
    /\ rPayload = <<>>
    /\ rPtr = 0
    /\ rEnd = 0
    /\ decoding = "idle"
    /\ lastDecode = "none"
    /\ entryPtr = 0
    /\ decoded = <<>>
    /\ readTop = 0
    /\ encoded = <<>>

\* An absent string (a null char pointer) and a present one.
None == <<>>
Some(str) == <<str>>

\* No query operation has been called.
IdleQueries ==
    /\ proc = "running"
    /\ ncalls = 0
    /\ sock = <<>>
    /\ call = "none"
    /\ wire = <<>>
    /\ response = [null |-> TRUE, ptr |-> 0, end |-> 0, capacity |-> 0,
                   received |-> 0, header |-> 0, syscalls |-> <<>>]
    /\ outcome = "none"
    /\ result = [watch |-> None, relative_path |-> None]
    /\ allocs = [request |-> 0, request_freed |-> 0,
                 response |-> 0, response_freed |-> 0]
    /\ exchange = [fresh |-> TRUE, fault |-> "none", tagged |-> FALSE,
                   declared |-> 0, actual |-> 0, more |-> FALSE, sent |-> 0,
                   root |-> <<>>, relative_root |-> None,
                   watch |-> None, relative_path |-> None, error |-> FALSE]

\* No request buffer is being built.
IdleRequest ==
    /\ request = [payload |-> <<>>, capacity |-> 0, length |-> 0]
    /\ storage = [size |-> 0, live |-> FALSE]
    /\ appended = [n |-> 0, at |-> 0, length |-> 0, capacity |-> 0]

\* No heap call is being followed step by step.
IdleSteps ==
    /\ hpc = "idle"
    /\ hidx = 0
    /\ hcall = [op |-> "none"]
    /\ reads = {}

\* commandt_watchman_connect has not been called.
IdleSockets ==
    /\ fds = <<>>
    /\ conn = [op |-> "none"]

IdleOthers == IdleRequest /\ IdleSteps /\ IdleSockets

HeapInit ==
    /\ \E cap \in 0..MaxCapacity, cmp \in Comparators : heap_new(cap, cmp)
    /\ IdleStream
    /\ IdleCodec
    /\ IdleQueries
    /\ IdleOthers

\* A call heap_insert(heap, value).
HeapInsert(value) ==
    /\ LET r == heap_insert(Heap, value)
       IN  /\ count' = r.count
           /\ entries' = r.entries
           /\ touched' = r.touched
    /\ arg' = value
    /\ lastOp' = "heap_insert"
    /\ UNCHANGED <<capacity, comparator, extracted, streamVars, codecVars, queryVars, otherVars>>

\* A call heap_extract(heap).
HeapExtract ==
    /\ LET r == heap_extract(Heap)
       IN  /\ count' = r.count
           /\ entries' = r.entries
           /\ touched' = r.touched
           /\ extracted' = r.extracted
    /\ lastOp' = "heap_extract"
    /\ UNCHANGED <<capacity, comparator, arg, streamVars, codecVars, queryVars, otherVars>>

HeapNext ==
    \/ \E value \in 1..MaxVal : HeapInsert(value)
    \/ HeapExtract

HeapSpec == HeapInit /\ [][HeapNext]_vars

(***************************************************************************)
(* A caller that feeds a stream to the heap and then drains it, as the     *)
(* matcher does with the candidates it scores.                             *)
(***************************************************************************)
HeapStreamInit ==
    /\ \E cap \in 0..MaxCapacity, cmp \in TotalComparators : heap_new(cap, cmp)
    /\ IdleStream
    /\ IdleCodec
    /\ IdleQueries
    /\ IdleOthers

\* The next element of the stream goes to heap_insert.
Feed(value) ==
    /\ lastOp # "heap_extract"
    /\ Len(stream) < MaxStream
    /\ LET r == heap_insert(Heap, value)
       IN  /\ count' = r.count
           /\ entries' = r.entries
           /\ touched' = r.touched
           /\ accepted' = IF r.stored THEN Append(accepted, value) ELSE accepted
    /\ arg' = value
    /\ stream' = Append(stream, value)
    /\ lastOp' = "heap_insert"
    /\ UNCHANGED <<capacity, comparator, extracted, out, codecVars, queryVars, otherVars>>

\* The stream has ended; the caller takes the next entry with heap_extract.
Drain ==
    /\ LET r == heap_extract(Heap)
       IN  /\ count' = r.count
           /\ entries' = r.entries
           /\ touched' = r.touched
           /\ extracted' = r.extracted
           /\ out' = IF r.extracted # NULL THEN Append(out, r.extracted) ELSE out
    /\ lastOp' = "heap_extract"
    /\ UNCHANGED <<capacity, comparator, arg, stream, accepted, codecVars, queryVars, otherVars>>

HeapStreamNext ==
    \/ \E value \in 1..MaxVal : Feed(value)
    \/ Drain

HeapStreamSpec == HeapStreamInit /\ [][HeapStreamNext]_vars

(***************************************************************************)
(* Reference definitions for the heap claims.                              *)
(***************************************************************************)
\* The entries the heap holds, entries[0..count-1], as a sequence.
Held == [i \in 1..count |-> entries[i - 1]]

SeqToBag(s) ==
    [x \in {s[i] : i \in DOMAIN s} |-> Cardinality({i \in DOMAIN s : s[i] = x})]

\* x put into the sorted sequence s, before the first element it must precede.
RECURSIVE SortedInsert(_, _, _)
SortedInsert(cmp, s, x) ==
    IF s = <<>> THEN <<x>>
    ELSE IF Compare(cmp, x, Head(s)) > 0
         THEN <<x>> \o s
         ELSE <<Head(s)>> \o SortedInsert(cmp, Tail(s), x)

\* A full sort of s under the comparator (root-first order).
RECURSIVE FullSort(_, _)
FullSort(cmp, s) ==
    IF s = <<>> THEN <<>>
    ELSE SortedInsert(cmp, FullSort(cmp, SubSeq(s, 1, Len(s) - 1)), s[Len(s)])

Prefix(s, n) == SubSeq(s, 1, IF n < Len(s) THEN n ELSE Len(s))

\* A step that is a call of heap_insert / of heap_extract (a call that
\* changes nothing at all is a stuttering step).
IsInsertStep == lastOp' = "heap_insert"
IsExtractStep == lastOp' = "heap_extract"

(***************************************************************************)
(* Claims about the heap.                                                  *)
(***************************************************************************)

\* C1: in every state reachable by heap_insert and heap_extract calls on a
\* heap built by heap_new(capacity, comparator), 0 <= count <= capacity, for
\* every capacity including 0 and any number of inserts.
C1_CountWithinCapacity == 0 <= count /\ count <= capacity

\* Witness of C1: a heap that has been through inserts and an extraction is
\* full, and the last call was an insert it had no room for.
C1_Witness ==
    /\ lastOp = "heap_insert"
    /\ capacity > 1
    /\ count = capacity
    /\ touched = {}
    /\ extracted # NULL

\* C2: for at most `capacity` inserts followed by extracts, under a total-order
\* comparator, the extracted entries are the inserted entries in the order of
\* a full sort under that comparator, and each extracted entry e satisfies
\* comparator(e, x) >= 0 for every entry x still held.
C2_ExtractionMatchesFullSort ==
    (comparator \in TotalComparators /\ Len(stream) <= capacity)
    => /\ out = Prefix(FullSort(comparator, stream), Len(out))
       /\ (count = 0 /\ lastOp = "heap_extract"
           => out = FullSort(comparator, stream))
       /\ (lastOp = "heap_extract" /\ extracted # NULL
           => \A i \in 0..(count - 1) :
                  Compare(comparator, extracted, entries[i]) >= 0)

\* Witness of C2: four entries, inserted out of order, have all been
\* extracted again.
C2_Witness ==
    /\ comparator = "min_first"
    /\ stream = <<3, 1, 4, 2>>
    /\ capacity = 4
    /\ Len(out) = 4
    /\ count = 0

\* C3: heap_insert called when count == capacity leaves the heap unchanged:
\* count, capacity and every entries slot are the same before and after.
C3_FullInsertIsNoOp ==
    [][(IsInsertStep /\ count = capacity)
       => (count' = count /\ capacity' = capacity /\ entries' = entries)]_vars

\* Witness of C3: a non-empty full heap has just dropped a value that differs
\* from everything it holds.
C3_Witness ==
    /\ lastOp = "heap_insert"
    /\ capacity > 0
    /\ count = capacity
    /\ touched = {}
    /\ \A i \in 0..(count - 1) : entries[i] # arg

\* C4: heap_extract on a heap with count == 0 returns NULL, reads and writes
\* no entries slot and leaves count at 0, for a fresh heap and for a heap
\* emptied by earlier extracts.
C4_EmptyExtractReturnsNull ==
    [][(IsExtractStep /\ count = 0)
       => (extracted' = NULL /\ touched' = {} /\ count' = 0
           /\ entries' = entries)]_vars

\* Witness of C4: the heap held entries, was emptied by extracts, and extract
\* was called once more.
C4_Witness ==
    /\ lastOp = "heap_extract"
    /\ extracted = NULL
    /\ count = 0
    /\ capacity > 0
    /\ entries[0] # Uninit

\* C5 (as stated): when a stream longer than the capacity K is fed into a
\* capacity-K heap, after all inserts the entries held are the first K
\* elements of a full sort of the whole stream under the comparator.
C5_HeldIsTopKOfStream ==
    (comparator \in TotalComparators /\ lastOp = "heap_insert"
        /\ Len(stream) > capacity)
    => SeqToBag(Held) = SeqToBag(Prefix(FullSort(comparator, stream), capacity))

\* C5 (amended): when a stream longer than the capacity K is fed into a
\* capacity-K heap, after all inserts the entries held are the first K
\* elements of the stream in arrival order; every later candidate is dropped,
\* whatever its rank.
C5_HeldIsFirstKOfStream ==
    (comparator \in TotalComparators /\ lastOp = "heap_insert"
        /\ Len(stream) > capacity)
    => /\ SeqToBag(Held) = SeqToBag(Prefix(stream, capacity))
       /\ accepted = Prefix(stream, capacity)

\* Witness of C5: the scenario of the specification, scores 5, 1, 9, 3 (here
\* in the same relative order: 3, 1, 4, 2) fed to a capacity-3 min-first heap.
C5_Witness ==
    /\ comparator = "min_first"
    /\ capacity = 3
    /\ stream = <<3, 1, 4, 2>>
    /\ lastOp = "heap_insert"

\* The last call was heap_insert or heap_extract.
AfterHeapCall == lastOp \in {"heap_insert", "heap_extract"}

\* C23 (as stated): after every heap_insert and heap_extract, for every index
\* i with 0 < i < count, comparator(entries[(i-1)/2], entries[i]) > 0.
C23_StrictHeapProperty ==
    AfterHeapCall =>
        \A i \in 1..(count - 1) :
            heap_property(comparator, entries, HEAP_PARENT(i), i)

\* C23 (amended): under a total-order comparator, after every heap_insert
\* and heap_extract, for every index i with 0 < i < count,
\* comparator(entries[(i-1)/2], entries[i]) >= 0: no child comes before its
\* parent, and the result is 0 where the two compare equal.
C23_WeakHeapProperty ==
    (AfterHeapCall /\ comparator \in TotalComparators) =>
        \A i \in 1..(count - 1) :
            heap_compare(comparator, entries, HEAP_PARENT(i), i) >= 0

\* Witness of C23: after an extraction the heap holds three entries, two of
\* which compare equal as parent and child.
C23_Witness ==
    /\ lastOp = "heap_extract"
    /\ comparator = "min_first"
    /\ count = 3
    /\ extracted # NULL
    /\ entries[0] = entries[1]
    /\ entries[2] > entries[0]

\* C26: the heap neither loses nor duplicates entries.  An accepted insert
\* raises count by exactly 1 and adds exactly the inserted value to the
\* multiset entries[0..count-1]; an extract from a non-empty heap lowers count
\* by exactly 1, returns a value that was held and removes exactly that value
\* from the multiset; a refused insert and an extract from an empty heap leave
\* the multiset as it was.  Step by step this keeps the multiset equal to the
\* accepted inserts minus the extracted values.
C26_EntriesConserved ==
    [][/\ (IsInsertStep /\ count < capacity)
            => /\ count' = count + 1
               /\ SeqToBag(Held') = SeqToBag(Held) (+) SetToBag({arg'})
       /\ (IsInsertStep /\ count = capacity)
            => SeqToBag(Held') = SeqToBag(Held)
       /\ (IsExtractStep /\ count > 0)
            => /\ count' = count - 1
               /\ \E i \in 0..(count - 1) : entries[i] = extracted'
               /\ SeqToBag(Held') (+) SetToBag({extracted'}) = SeqToBag(Held)
       /\ (IsExtractStep /\ count = 0)
            => SeqToBag(Held') = SeqToBag(Held)]_vars

\* Witness of C26: under a comparator that is no order, an extraction from a
\* full heap of four has left three entries, two of them equal, after both
\* inserts and extracts moved entries around.
C26_Witness ==
    /\ lastOp = "heap_extract"
    /\ comparator = "inconsistent"
    /\ capacity = 4
    /\ count = 3
    /\ extracted # NULL
    /\ entries[1] = entries[2]
    /\ entries[0] # entries[1]
    /\ entries[3] # Uninit

(***************************************************************************)
(* watchman.c: the wire format.                                            *)
(***************************************************************************)
WATCHMAN_ARRAY_MARKER == 0
WATCHMAN_OBJECT_MARKER == 1
WATCHMAN_STRING_MARKER == 2
WATCHMAN_INT8_MARKER == 3
WATCHMAN_INT16_MARKER == 4
WATCHMAN_INT32_MARKER == 5
WATCHMAN_INT64_MARKER == 6
WATCHMAN_DOUBLE_MARKER == 7
WATCHMAN_TRUE == 8
WATCHMAN_FALSE == 9
WATCHMAN_NIL == 10
WATCHMAN_TEMPLATE_MARKER == 11
WATCHMAN_SKIP_MARKER == 12

\* sizeof(int8_t), sizeof(int16_t), sizeof(int32_t), sizeof(int64_t) and
\* sizeof(double)
SizeofInt8 == 1
SizeofInt16 == 2
SizeofInt32 == 4
SizeofInt64 == 8
SizeofDouble == 8

\* The integer an n-byte little-endian two's-complement field holds (the
\* casts *(intN_t *)val_ptr of watchman_read_int on a little-endian build).
RECURSIVE UnsignedLE(_)
UnsignedLE(bytes) ==
    IF bytes = <<>> THEN 0 ELSE Head(bytes) + 256 * UnsignedLE(Tail(bytes))

SignedLE(bytes) ==
    IF bytes[Len(bytes)] >= 128
    THEN -(UnsignedLE([i \in 1..Len(bytes) |-> 255 - bytes[i]])) - 1
    ELSE UnsignedLE(bytes)

\* The n low-order bytes of num, least significant first (the stores
\* *(intN_t *)(encoded + 1) = (intN_t)num of watchman_write_int).
RECURSIVE LEBytes(_, _)
LEBytes(num, n) ==
    IF n = 0 THEN <<>> ELSE <<num % 256>> \o LEBytes(num \div 256, n - 1)

\* r->payload[p]
ByteAt(payload, p) == payload[p + 1]

\* r->payload[from .. from + n - 1]
Bytes(payload, from, n) == SubSeq(payload, from + 1, from + n)

(***************************************************************************)
(* watchman.c: the decode operations.  Each takes r->payload, r->ptr and   *)
(* r->end and gives [st, ptr, val]: st is "ok" when the function returns   *)
(* and "abort" when it calls abort(); ptr is r->ptr afterwards; val is the *)
(* value returned; top is the offset just past the last byte of the        *)
(* payload the function has read (0 when it has read none).                *)
(***************************************************************************)
Ok(p, v) == [st |-> "ok", ptr |-> p, val |-> v, top |-> p]
Abort(p) == [st |-> "abort", ptr |-> p, val |-> 0, top |-> 0]

\* The result of a function that has read the bytes below top itself.
Saw(res, top) == [res EXCEPT !.top = IF @ > top THEN @ ELSE top]

\* A local variable: Rest is the remainder of the function body, run with
\* the variable holding val.
With(val, Rest(_)) == Rest(val)

\* The width of the integer that follows an integer marker.
IntWidth(marker) ==
    CASE marker = WATCHMAN_INT8_MARKER  -> SizeofInt8
      [] marker = WATCHMAN_INT16_MARKER -> SizeofInt16
      [] marker = WATCHMAN_INT32_MARKER -> SizeofInt32
      [] marker = WATCHMAN_INT64_MARKER -> SizeofInt64
      [] OTHER -> 0

\* An int64_t is held as its eight bytes, least significant first.
\* The conversion of an n-byte two's-complement field to int64_t (the
\* assignment val = *(intN_t *)val_ptr) extends the sign.
SignExtend(bytes) ==
    bytes \o [i \in 1..(SizeofInt64 - Len(bytes)) |->
                 IF bytes[Len(bytes)] >= 128 THEN 255 ELSE 0]

\* watchman_read_int, with the int64_t it returns as its eight bytes.
watchman_read_int64(payload, ptr, end) ==
    LET val_ptr == ptr + SizeofInt8
    IN  IF val_ptr >= end
        THEN Abort(ptr)                         \* Insufficient int storage.
        ELSE LET width == IntWidth(ByteAt(payload, ptr))
             IN  IF width = 0
                 THEN Saw(Abort(ptr), val_ptr)  \* Bad integer marker.
                 ELSE IF val_ptr + width > end
                      THEN Saw(Abort(ptr), val_ptr) \* Overrun extracting intN_t.
                      ELSE Ok(val_ptr + width,
                              SignExtend(Bytes(payload, val_ptr, width)))

\* watchman_read_int where the caller uses the value as a number (a length,
\* a count or a size).
watchman_read_int(payload, ptr, end) ==
    With(watchman_read_int64(payload, ptr, end), LAMBDA res :
         IF res.st = "ok" THEN Ok(res.ptr, SignedLE(res.val)) ELSE res)

\* watchman_read_string without the case for a zero length and with the
\* bounds test r->ptr + length >= r->end.
watchman_read_string_strict_bound(payload, ptr, end) ==
    IF ptr >= end
    THEN Abort(ptr)
    ELSE IF ByteAt(payload, ptr) # WATCHMAN_STRING_MARKER
    THEN Saw(Abort(ptr), ptr + SizeofInt8)
    ELSE IF ptr + SizeofInt8 >= end
    THEN Saw(Abort(ptr + SizeofInt8), ptr + SizeofInt8)
    ELSE With(watchman_read_int(payload, ptr + SizeofInt8, end), LAMBDA len :
             IF len.st # "ok"
             THEN Saw(len, ptr + SizeofInt8)
             ELSE IF len.ptr + len.val >= end
                  THEN Saw(Abort(len.ptr), len.ptr)
                  ELSE Ok(len.ptr + len.val, Bytes(payload, len.ptr, len.val)))

\* The string is returned as its bytes.  A negative length passes the bounds
\* check; str_new_copy() is then handed that length, which the model reports
\* as st = "ub" with the cursor moved by the negative length (top then counts
\* the bytes watchman_read_string has read itself).
watchman_read_string(payload, ptr, end) ==
    IF ptr >= end
    THEN Abort(ptr)                             \* Unexpected end of input.
    ELSE IF ByteAt(payload, ptr) # WATCHMAN_STRING_MARKER
    THEN Saw(Abort(ptr), ptr + SizeofInt8)      \* Not a string.
    ELSE IF ptr + SizeofInt8 >= end
    THEN Saw(Abort(ptr + SizeofInt8), ptr + SizeofInt8) \* Invalid string header.
    ELSE With(watchman_read_int(payload, ptr + SizeofInt8, end), LAMBDA len :
             IF len.st # "ok"
             THEN Saw(len, ptr + SizeofInt8)
             ELSE IF len.val = 0
                  THEN Ok(len.ptr, <<>>)
                  ELSE IF len.ptr + len.val > end
                       THEN Saw(Abort(len.ptr), len.ptr) \* Insufficient string storage.
                       ELSE IF len.val < 0
                            THEN [st |-> "ub", ptr |-> len.ptr + len.val,
                                  val |-> <<>>, top |-> len.ptr]
                            ELSE Ok(len.ptr + len.val,
                                    Bytes(payload, len.ptr, len.val)))

\* The double is returned as its eight bytes.
watchman_read_double(payload, ptr, end) ==
    IF ptr + 1 + SizeofDouble > end
    THEN Abort(ptr)                             \* Insufficient double storage.
    ELSE IF ByteAt(payload, ptr) = WATCHMAN_DOUBLE_MARKER
         THEN Ok(ptr + 1 + SizeofDouble, Bytes(payload, ptr + 1, SizeofDouble))
         ELSE Saw(Abort(ptr), ptr + 1)          \* Not an object.

\* ReadCount without the test of the marker.
ReadCount_marker_unchecked(marker, payload, ptr, end) ==
    IF ptr >= end
    THEN Abort(ptr)
    ELSE IF ptr + 1 + 2 > end
         THEN Saw(Abort(ptr + 1), ptr + 1)
         ELSE With(watchman_read_int(payload, ptr + 1, end), LAMBDA cnt :
                  IF cnt.st = "ok" /\ cnt.val < 0
                  THEN Saw(Abort(cnt.ptr), cnt.ptr)
                  ELSE Saw(cnt, ptr + 1))

\* watchman_read_array and watchman_read_object differ in the marker only.
ReadCount(marker, payload, ptr, end) ==
    IF ptr >= end
    THEN Abort(ptr)                             \* Unexpected end of input.
    ELSE IF ByteAt(payload, ptr) = marker
         THEN IF ptr + 1 + 2 > end
              THEN Saw(Abort(ptr + 1), ptr + 1) \* Incomplete header.
              ELSE With(watchman_read_int(payload, ptr + 1, end), LAMBDA cnt :
                       IF cnt.st = "ok" /\ cnt.val < 0
                       THEN Saw(Abort(cnt.ptr), cnt.ptr) \* Negative count.
                       ELSE Saw(cnt, ptr + 1))
         ELSE Saw(Abort(ptr), ptr + 1)          \* Not an array / object.

watchman_read_array(payload, ptr, end) ==
    ReadCount(WATCHMAN_ARRAY_MARKER, payload, ptr, end)

watchman_read_object(payload, ptr, end) ==
    ReadCount(WATCHMAN_OBJECT_MARKER, payload, ptr, end)

RECURSIVE watchman_skip_value(_, _, _)
RECURSIVE SkipValues(_, _, _, _)
RECURSIVE SkipRows(_, _, _, _, _)

\* for (i = 0; i < n; i++) { watchman_skip_value(r); }
SkipValues(payload, ptr, end, n) ==
    IF n = 0
    THEN Ok(ptr, 0)
    ELSE With(watchman_skip_value(payload, ptr, end), LAMBDA one :
             IF one.st # "ok" THEN one
             ELSE Saw(SkipValues(payload, one.ptr, end, n - 1), one.top))

\* for (i = 0; i < rows; i++) for (j = 0; j < keys; j++) { ...skip... }
SkipRows(payload, ptr, end, rows, keys) ==
    IF rows = 0
    THEN Ok(ptr, 0)
    ELSE With(SkipValues(payload, ptr, end, keys), LAMBDA row :
             IF row.st # "ok" THEN row
             ELSE Saw(SkipRows(payload, row.ptr, end, rows - 1, keys), row.top))

watchman_skip_value(payload, ptr, end) ==
    IF ptr >= end
    THEN Abort(ptr)                             \* Unexpected end of input.
    ELSE LET marker == ByteAt(payload, ptr)
         IN
         CASE marker = WATCHMAN_ARRAY_MARKER ->
                With(watchman_read_array(payload, ptr, end), LAMBDA cnt :
                    IF cnt.st # "ok" THEN cnt
                    ELSE Saw(SkipValues(payload, cnt.ptr, end, cnt.val), cnt.top))
           [] marker = WATCHMAN_OBJECT_MARKER ->
                With(watchman_read_object(payload, ptr, end), LAMBDA cnt :
                    IF cnt.st # "ok" THEN cnt
                    ELSE Saw(SkipValues(payload, cnt.ptr, end, cnt.val), cnt.top))
           [] marker = WATCHMAN_STRING_MARKER ->
                watchman_read_string(payload, ptr, end)
           [] marker \in {WATCHMAN_INT8_MARKER, WATCHMAN_INT16_MARKER,
                          WATCHMAN_INT32_MARKER, WATCHMAN_INT64_MARKER} ->
                watchman_read_int64(payload, ptr, end)
           [] marker = WATCHMAN_DOUBLE_MARKER ->
                Saw(watchman_read_double(payload, ptr, end), ptr + 1)
           [] marker \in {WATCHMAN_TRUE, WATCHMAN_FALSE, WATCHMAN_NIL,
                          WATCHMAN_SKIP_MARKER} ->
                Ok(ptr + 1, 0)
           [] marker = WATCHMAN_TEMPLATE_MARKER ->
                With(Saw(watchman_read_array(payload, ptr + 1, end), ptr + 1),
                     LAMBDA key_count :
                    IF key_count.st # "ok" THEN key_count
                    ELSE With(Saw(SkipValues(payload, key_count.ptr, end,
                                             key_count.val),
                                  key_count.top),
                              LAMBDA names :
                         IF names.st # "ok" THEN names
                         ELSE With(Saw(watchman_read_array(payload, names.ptr, end),
                                       names.top),
                                   LAMBDA object_count :
                              IF object_count.st # "ok" THEN object_count
                              ELSE Saw(SkipRows(payload, object_count.ptr, end,
                                                object_count.val, key_count.val),
                                       object_count.top))))
           [] OTHER -> Saw(Abort(ptr), ptr + 1) \* Unsupported type.

(***************************************************************************)
(* The encoding side.  watchman_write_int picks the narrowest width; the   *)
(* daemon encodes its responses in the same format, with any width that    *)
(* holds the integer.                                                      *)
(***************************************************************************)
\* (int8_t)num for a number of the model
Int8Cast(num) == ((num + 128) % 256) - 128

\* The int64_t that holds num, as its eight bytes.
Int64Of(num) == LEBytes(num, SizeofInt64)

\* (intN_t)num for the int64_t num, converted back to int64_t for the
\* comparison num == (intN_t)num.
IntNCast(bits, n) == SignExtend(SubSeq(bits, 1, n))

\* EncodeInt64 without the int16_t branch.
EncodeInt64_no_int16(bits) ==
    IF bits = IntNCast(bits, SizeofInt8)
    THEN <<WATCHMAN_INT8_MARKER>> \o SubSeq(bits, 1, SizeofInt8)
    ELSE IF bits = IntNCast(bits, SizeofInt32)
    THEN <<WATCHMAN_INT32_MARKER>> \o SubSeq(bits, 1, SizeofInt32)
    ELSE <<WATCHMAN_INT64_MARKER>> \o bits

\* The bytes watchman_write_int appends for the int64_t num.
EncodeInt64(bits) ==
    IF bits = IntNCast(bits, SizeofInt8)
    THEN <<WATCHMAN_INT8_MARKER>> \o SubSeq(bits, 1, SizeofInt8)
    ELSE IF bits = IntNCast(bits, SizeofInt16)
    THEN <<WATCHMAN_INT16_MARKER>> \o SubSeq(bits, 1, SizeofInt16)
    ELSE IF bits = IntNCast(bits, SizeofInt32)
    THEN <<WATCHMAN_INT32_MARKER>> \o SubSeq(bits, 1, SizeofInt32)
    ELSE <<WATCHMAN_INT64_MARKER>> \o bits

\* The bytes watchman_write_int appends for a number of the model.
EncodeInt(num) == EncodeInt64(Int64Of(num))

\* The bytes watchman_write_string appends for the `length` bytes at `string`.
EncodeString(string, length) ==
    <<WATCHMAN_STRING_MARKER>> \o EncodeInt(length) \o SubSeq(string, 1, length)

\* The bytes watchman_write_array / watchman_write_object append.
EncodeArrayHeader(length) == <<WATCHMAN_ARRAY_MARKER>> \o EncodeInt(length)
EncodeObjectHeader(size) == <<WATCHMAN_OBJECT_MARKER>> \o EncodeInt(size)

\* Values as the daemon holds them.
IntValue(w, n) == [t |-> "int", w |-> w, v |-> n]
StrValue(str) == [t |-> "str", s |-> str]
DoubleValue == [t |-> "dbl", b |-> <<0, 0, 0, 0, 0, 0, 240, 63>>]
TrueValue == [t |-> "true"]
FalseValue == [t |-> "false"]
NilValue == [t |-> "nil"]
SkipCell == [t |-> "skip"]
ArrayValue(items) == [t |-> "arr", items |-> items]
\* pairs: a sequence of [k |-> key bytes, v |-> value]
ObjectValue(pairs) == [t |-> "obj", pairs |-> pairs]
\* keys: a sequence of key names; rows: a sequence of rows of Len(keys) cells
TemplateValue(keys, rows) == [t |-> "tpl", keys |-> keys, rows |-> rows]

\* The encoding of a value.  A template is laid out as watchman_skip_value
\* reads it: the marker, an array of key names, an array header holding the
\* row count, then the cells row by row.
RECURSIVE BserEncode(_)
RECURSIVE BserEncodeAll(_)
RECURSIVE BserEncodePairs(_)
RECURSIVE BserEncodeRows(_)
BserEncodeAll(items) ==
    IF items = <<>> THEN <<>>
    ELSE BserEncode(Head(items)) \o BserEncodeAll(Tail(items))

BserEncodePairs(pairs) ==
    IF pairs = <<>> THEN <<>>
    ELSE EncodeString(Head(pairs).k, Len(Head(pairs).k))
             \o BserEncode(Head(pairs).v) \o BserEncodePairs(Tail(pairs))

BserEncodeRows(rows) ==
    IF rows = <<>> THEN <<>>
    ELSE BserEncodeAll(Head(rows)) \o BserEncodeRows(Tail(rows))

BserEncode(v) ==
    CASE v.t = "int" -> <<v.w>> \o LEBytes(v.v, IntWidth(v.w))
      [] v.t = "str" -> EncodeString(v.s, Len(v.s))
      [] v.t = "dbl" -> <<WATCHMAN_DOUBLE_MARKER>> \o v.b
      [] v.t = "true" -> <<WATCHMAN_TRUE>>
      [] v.t = "false" -> <<WATCHMAN_FALSE>>
      [] v.t = "nil" -> <<WATCHMAN_NIL>>
      [] v.t = "skip" -> <<WATCHMAN_SKIP_MARKER>>
      [] v.t = "arr" -> EncodeArrayHeader(Len(v.items)) \o BserEncodeAll(v.items)
      [] v.t = "obj" -> EncodeObjectHeader(Len(v.pairs)) \o BserEncodePairs(v.pairs)
      [] v.t = "tpl" ->
            <<WATCHMAN_TEMPLATE_MARKER>>
                \o EncodeArrayHeader(Len(v.keys))
                \o BserEncodeAll([i \in DOMAIN v.keys |-> StrValue(v.keys[i])])
                \o EncodeArrayHeader(Len(v.rows))
                \o BserEncodeRows(v.rows)

(***************************************************************************)
(* The values the decode operations are run on.                            *)
(***************************************************************************)
SeqsUpTo(S, n) == UNION {[1..k -> S] : k \in 0..n}

\* The name of the i-th key: "a", "b", ...
KeyName(i) == <<96 + i>>

Scalars ==
    {IntValue(WATCHMAN_INT8_MARKER, 1), IntValue(WATCHMAN_INT8_MARKER, -1),
     IntValue(WATCHMAN_INT16_MARKER, 300), IntValue(WATCHMAN_INT32_MARKER, 70000),
     IntValue(WATCHMAN_INT64_MARKER, 5),
     StrValue(<<>>), StrValue(<<97>>), DoubleValue,
     TrueValue, FalseValue, NilValue}

Elems == {IntValue(WATCHMAN_INT8_MARKER, 1), StrValue(<<97>>), NilValue}
Cells == {IntValue(WATCHMAN_INT8_MARKER, 1), SkipCell}

ArraysOf(S) == {ArrayValue(q) : q \in SeqsUpTo(S, MaxCount)}
ObjectsOf(S) ==
    {ObjectValue([i \in DOMAIN q |-> [k |-> KeyName(i), v |-> q[i]]]) :
        q \in SeqsUpTo(S, MaxCount)}
Templates ==
    UNION {{TemplateValue([i \in 1..k |-> KeyName(i)], rows) :
                rows \in SeqsUpTo([1..k -> Cells], MaxCount)} : k \in 0..MaxCount}

FlatValues == Scalars \cup ArraysOf(Elems) \cup ObjectsOf(Elems) \cup Templates

\* Values nested d levels deeper than the flat ones.
RECURSIVE NestedValues(_)
NestedValues(d) ==
    IF d = 0 THEN FlatValues
    ELSE LET inner == NestedValues(d - 1)
         IN  inner
             \cup {ArrayValue(<<v>>) : v \in inner}
             \cup {ObjectValue(<<[k |-> KeyName(1), v |-> v]>>) : v \in inner}
             \cup {TemplateValue(<<KeyName(1)>>, <<(<<v>>)>>) : v \in inner}

\* What may follow the value in the response.
Trailers == {<<>>, <<WATCHMAN_NIL>>}

(***************************************************************************)
(* CodecSpec: the decode operations applied to a response that starts with *)
(* the encoding of a value.                                                *)
(***************************************************************************)
IdleHeap ==
    /\ heap_new(0, "min_first")
    /\ IdleStream

CodecInit ==
    /\ \E v \in NestedValues(MaxDepth), trailer \in Trailers :
          /\ rPayload = BserEncode(v) \o trailer
          /\ encoded = v
    /\ rPtr = 0
    /\ rEnd = Len(rPayload)
    /\ decoding = "live"
    /\ lastDecode = "none"
    /\ entryPtr = 0
    /\ decoded = <<>>
    /\ readTop = 0
    /\ IdleHeap
    /\ IdleQueries
    /\ IdleOthers

\* What becomes of the process after a decode operation: abort() ends it.
\* Where str_new_copy() was handed a negative length the call may end the
\* process (abort() or a signal, "undefined") or return, and the operation
\* then returns with the cursor moved by that length ("strayed"; what the
\* process does from there is not followed).
DecodeStatus(res) ==
    CASE res.st = "ok" -> {"live"}
      [] res.st = "abort" -> {"aborted"}
      [] OTHER -> {"strayed", "aborted", "undefined"}

\* The caller runs watchman_read_int(r) at the cursor.
ReadInt ==
    /\ decoding = "live"
    /\ \E res \in {watchman_read_int64(rPayload, rPtr, rEnd)} :
          /\ rPtr' = res.ptr
          /\ decoding' \in DecodeStatus(res)
          /\ decoded' = res.val
          /\ readTop' = res.top
    /\ lastDecode' = "watchman_read_int"
    /\ entryPtr' = rPtr
    /\ UNCHANGED <<rPayload, rEnd, encoded, heapVars, streamVars, queryVars, otherVars>>

\* The caller runs watchman_read_string(r) at the cursor.
ReadString ==
    /\ decoding = "live"
    /\ \E res \in {watchman_read_string(rPayload, rPtr, rEnd)} :
          /\ rPtr' = res.ptr
          /\ decoding' \in DecodeStatus(res)
          /\ decoded' = res.val
          /\ readTop' = res.top
    /\ lastDecode' = "watchman_read_string"
    /\ entryPtr' = rPtr
    /\ UNCHANGED <<rPayload, rEnd, encoded, heapVars, streamVars, queryVars, otherVars>>

\* The caller runs watchman_read_double(r) at the cursor.
ReadDouble ==
    /\ decoding = "live"
    /\ \E res \in {watchman_read_double(rPayload, rPtr, rEnd)} :
          /\ rPtr' = res.ptr
          /\ decoding' \in DecodeStatus(res)
          /\ decoded' = res.val
          /\ readTop' = res.top
    /\ lastDecode' = "watchman_read_double"
    /\ entryPtr' = rPtr
    /\ UNCHANGED <<rPayload, rEnd, encoded, heapVars, streamVars, queryVars, otherVars>>

\* The caller runs watchman_read_array(r) at the cursor.
ReadArray ==
    /\ decoding = "live"
    /\ \E res \in {watchman_read_array(rPayload, rPtr, rEnd)} :
          /\ rPtr' = res.ptr
          /\ decoding' \in DecodeStatus(res)
          /\ decoded' = res.val
          /\ readTop' = res.top
    /\ lastDecode' = "watchman_read_array"
    /\ entryPtr' = rPtr
    /\ UNCHANGED <<rPayload, rEnd, encoded, heapVars, streamVars, queryVars, otherVars>>

\* The caller runs watchman_read_object(r) at the cursor.
ReadObject ==
    /\ decoding = "live"
    /\ \E res \in {watchman_read_object(rPayload, rPtr, rEnd)} :
          /\ rPtr' = res.ptr
          /\ decoding' \in DecodeStatus(res)
          /\ decoded' = res.val
          /\ readTop' = res.top
    /\ lastDecode' = "watchman_read_object"
    /\ entryPtr' = rPtr
    /\ UNCHANGED <<rPayload, rEnd, encoded, heapVars, streamVars, queryVars, otherVars>>

\* The caller runs watchman_skip_value(r) at the cursor.
SkipValue ==
    /\ decoding = "live"
    /\ \E res \in {watchman_skip_value(rPayload, rPtr, rEnd)} :
          /\ rPtr' = res.ptr
          /\ decoding' \in DecodeStatus(res)
          /\ decoded' = res.val
          /\ readTop' = res.top
    /\ lastDecode' = "watchman_skip_value"
    /\ entryPtr' = rPtr
    /\ UNCHANGED <<rPayload, rEnd, encoded, heapVars, streamVars, queryVars, otherVars>>

CodecNext ==
    \/ ReadInt
    \/ ReadString
    \/ ReadDouble
    \/ ReadArray
    \/ ReadObject
    \/ SkipValue

CodecSpec == CodecInit /\ [][CodecNext]_vars

(***************************************************************************)
(* Reference: decoding a value field by field with the read operations,    *)
(* following the wire format (an object of n pairs is n keys, each a       *)
(* string, each followed by its value).                                    *)
(***************************************************************************)
RECURSIVE DecodeValue(_, _, _)
RECURSIVE DecodeValues(_, _, _, _)
RECURSIVE DecodePairs(_, _, _, _)
RECURSIVE DecodeStrings(_, _, _, _)

DecodeValues(payload, ptr, end, n) ==
    IF n = 0 THEN Ok(ptr, 0)
    ELSE LET one == DecodeValue(payload, ptr, end)
         IN  IF one.st # "ok" THEN one
             ELSE DecodeValues(payload, one.ptr, end, n - 1)

DecodeStrings(payload, ptr, end, n) ==
    IF n = 0 THEN Ok(ptr, 0)
    ELSE LET one == watchman_read_string(payload, ptr, end)
         IN  IF one.st # "ok" THEN one
             ELSE DecodeStrings(payload, one.ptr, end, n - 1)

DecodePairs(payload, ptr, end, n) ==
    IF n = 0 THEN Ok(ptr, 0)
    ELSE LET key == watchman_read_string(payload, ptr, end)
         IN  IF key.st # "ok" THEN key
             ELSE LET val == DecodeValue(payload, key.ptr, end)
                  IN  IF val.st # "ok" THEN val
                      ELSE DecodePairs(payload, val.ptr, end, n - 1)

DecodeValue(payload, ptr, end) ==
    IF ptr >= end THEN Abort(ptr)
    ELSE LET marker == ByteAt(payload, ptr)
         IN
         CASE marker = WATCHMAN_ARRAY_MARKER ->
                LET cnt == watchman_read_array(payload, ptr, end)
                IN  IF cnt.st # "ok" THEN cnt
                    ELSE DecodeValues(payload, cnt.ptr, end, cnt.val)
           [] marker = WATCHMAN_OBJECT_MARKER ->
                LET cnt == watchman_read_object(payload, ptr, end)
                IN  IF cnt.st # "ok" THEN cnt
                    ELSE DecodePairs(payload, cnt.ptr, end, cnt.val)
           [] marker = WATCHMAN_STRING_MARKER ->
                watchman_read_string(payload, ptr, end)
           [] IntWidth(marker) # 0 ->
                watchman_read_int64(payload, ptr, end)
           [] marker = WATCHMAN_DOUBLE_MARKER ->
                watchman_read_double(payload, ptr, end)
           [] marker \in {WATCHMAN_TRUE, WATCHMAN_FALSE, WATCHMAN_NIL,
                          WATCHMAN_SKIP_MARKER} ->
                Ok(ptr + 1, 0)
           [] marker = WATCHMAN_TEMPLATE_MARKER ->
                LET keys == watchman_read_array(payload, ptr + 1, end)
                IN  IF keys.st # "ok" THEN keys
                    ELSE LET names == DecodeStrings(payload, keys.ptr, end, keys.val)
                         IN  IF names.st # "ok" THEN names
                             ELSE LET rows == watchman_read_array(payload, names.ptr, end)
                                  IN  IF rows.st # "ok" THEN rows
                                      ELSE DecodeValues(payload, rows.ptr, end,
                                                        rows.val * keys.val)
           [] OTHER -> Abort(ptr)

(***************************************************************************)
(* Claims about the codec (checked under CodecSpec).                       *)
(***************************************************************************)

\* The last operation was watchman_skip_value, run on the encoded value.
SkippedEncodedValue == lastDecode = "watchman_skip_value" /\ entryPtr = 0

\* C6: for every validly encoded value, watchman_skip_value advances the
\* cursor to the position that decoding the value field by field reaches,
\* the first byte after the value; an object with n pairs is skipped as n
\* keys plus n values.
C6_SkipMatchesDecode ==
    SkippedEncodedValue
    => /\ decoding = "live"
       /\ rPtr = Len(BserEncode(encoded))
       /\ rPtr = DecodeValue(rPayload, 0, rEnd).ptr

\* What the code does hold to: a value that contains no object with a pair
\* in it is skipped to its end.
RECURSIVE HasPairs(_)
HasPairs(v) ==
    CASE v.t = "arr" -> \E i \in DOMAIN v.items : HasPairs(v.items[i])
      [] v.t = "obj" -> v.pairs # <<>>
      [] v.t = "tpl" -> \E i \in DOMAIN v.rows :
                            \E j \in DOMAIN v.rows[i] : HasPairs(v.rows[i][j])
      [] OTHER -> FALSE

SkipOfPairlessValue ==
    (SkippedEncodedValue /\ ~HasPairs(encoded))
    => /\ decoding = "live"
       /\ rPtr = Len(BserEncode(encoded))
       /\ rPtr = DecodeValue(rPayload, 0, rEnd).ptr

\* C24: watchman_skip_value on a template consumes the marker, the array of
\* the K key names, the array header with the row count R and exactly R x K
\* values, and leaves the cursor on the first byte after the template.
C24_TemplateSkippedToItsEnd ==
    (SkippedEncodedValue /\ encoded.t = "tpl")
    => /\ decoding = "live"
       /\ rPtr = Len(BserEncode(encoded))

\* What the code holds to: a template none of whose cells contains an object
\* with a pair is skipped to its end, whatever K and R are.
PairlessTemplateSkippedToItsEnd ==
    (SkippedEncodedValue /\ encoded.t = "tpl" /\ ~HasPairs(encoded))
    => /\ decoding = "live"
       /\ rPtr = Len(BserEncode(encoded))

(***************************************************************************)
(* watchman.c: building a request.                                         *)
(* A request w is [payload, capacity, length]; payload holds the `length`  *)
(* bytes written so far.                                                   *)
(***************************************************************************)
WATCHMAN_DEFAULT_STORAGE == 4096
WATCHMAN_BINARY_MARKER == <<0, 1>>
\* WATCHMAN_BINARY_MARKER "\x06" "\x00\x00\x00\x00\x00\x00\x00\x00"
WATCHMAN_HEADER ==
    WATCHMAN_BINARY_MARKER \o <<WATCHMAN_INT64_MARKER>> \o <<0, 0, 0, 0, 0, 0, 0, 0>>
\* sizeof(WATCHMAN_BINARY_MARKER) - 1 + sizeof(int8_t)
WATCHMAN_SNIFF_BUFFER_SIZE == Len(WATCHMAN_BINARY_MARKER) + SizeofInt8

\* The array a C string literal denotes: its characters and a terminator.
\* sizeof(literal) is the length of that array.
Literal(chars) == chars \o <<0>>
Sizeof(literal) == Len(literal)

\* strlen(): the number of bytes before the first terminator.
RECURSIVE strlen(_)
strlen(cstr) == IF Head(cstr) = 0 THEN 0 ELSE 1 + strlen(Tail(cstr))

WatchProjectChars == <<119, 97, 116, 99, 104, 45, 112, 114, 111, 106, 101, 99, 116>>
QueryChars == <<113, 117, 101, 114, 121>>
ExpressionChars == <<101, 120, 112, 114, 101, 115, 115, 105, 111, 110>>
TypeChars == <<116, 121, 112, 101>>
FChars == <<102>>
FieldsChars == <<102, 105, 101, 108, 100, 115>>
NameChars == <<110, 97, 109, 101>>
RelativeRootChars == <<114, 101, 108, 97, 116, 105, 118, 101, 95, 114, 111, 111, 116>>
WatchChars == <<119, 97, 116, 99, 104>>
RelativePathChars == <<114, 101, 108, 97, 116, 105, 118, 101, 95, 112, 97, 116, 104>>
ErrorChars == <<101, 114, 114, 111, 114>>

watchman_append(w, data, length) ==
    [payload  |-> w.payload \o SubSeq(data, 1, length),
     capacity |-> IF w.length + length > w.capacity
                  THEN w.capacity + w.length + WATCHMAN_DEFAULT_STORAGE
                  ELSE w.capacity,
     length   |-> w.length + length]

watchman_init ==
    watchman_append([payload |-> <<>>, capacity |-> WATCHMAN_DEFAULT_STORAGE,
                     length |-> 0],
                    WATCHMAN_HEADER, Len(WATCHMAN_HEADER))

\* watchman_write_int for an int64_t given as its eight bytes.
watchman_write_int64(w, bits) ==
    LET enc == EncodeInt64(bits) IN watchman_append(w, enc, Len(enc))

watchman_write_int(w, num) == watchman_write_int64(w, Int64Of(num))

watchman_write_string(w, string, length) ==
    watchman_append(
        watchman_write_int(
            watchman_append(w, <<WATCHMAN_STRING_MARKER>>, 1), length),
        string, length)

watchman_write_array(w, length) ==
    watchman_write_int(watchman_append(w, <<WATCHMAN_ARRAY_MARKER>>, 1), length)

watchman_write_object(w, size) ==
    watchman_write_int(watchman_append(w, <<WATCHMAN_OBJECT_MARKER>>, 1), size)

\* The request of commandt_watchman_watch_project(root, socket).
WatchProjectRequest(root) ==
    LET w0 == watchman_init
        w1 == watchman_write_array(w0, 2)
        w2 == watchman_write_string(w1, Literal(WatchProjectChars),
                                    Sizeof(Literal(WatchProjectChars)))
    IN  watchman_write_string(w2, root, strlen(root))

\* The request of commandt_watchman_query(root, relative_root, socket);
\* relative_root is None for a null pointer.
QueryRequest(root, relative_root) ==
    LET w0 == watchman_init
        w1 == watchman_write_array(w0, 3)
        w2 == watchman_write_string(w1, Literal(QueryChars), Sizeof(Literal(QueryChars)))
        w3 == watchman_write_string(w2, root, strlen(root))
        w4 == watchman_write_object(w3, IF relative_root # None THEN 3 ELSE 2)
        w5 == watchman_write_string(w4, Literal(ExpressionChars),
                                    Sizeof(Literal(ExpressionChars)))
        w6 == watchman_write_array(w5, 2)
        w7 == watchman_write_string(w6, Literal(TypeChars), Sizeof(Literal(TypeChars)))
        w8 == watchman_write_string(w7, Literal(FChars), Sizeof(Literal(FChars)))
        w9 == watchman_write_string(w8, Literal(FieldsChars), Sizeof(Literal(FieldsChars)))
        w10 == watchman_write_array(w9, 1)
        w11 == watchman_write_string(w10, Literal(NameChars), Sizeof(Literal(NameChars)))
    IN  IF relative_root # None
        THEN watchman_write_string(
                 watchman_write_string(w11, Literal(RelativeRootChars),
                                       Sizeof(Literal(RelativeRootChars))),
                 relative_root[1], strlen(relative_root[1]))
        ELSE w11

(***************************************************************************)
(* watchman.c: the transport.                                              *)
(***************************************************************************)
\* What can go wrong with the four socket calls of watchman_send_query.
Faults == {"none", "send_error", "send_short", "sniff_error", "sniff_short",
           "peek_error", "peek_short", "read_error", "read_short"}

Min(a, b) == IF a < b THEN a ELSE b

\* The return value of recv() asked for n bytes when `avail` bytes are
\* queued: -1 on an error, fewer than n when the call is cut short or the
\* stream ends first, else n.
Recv(avail, n, error, short) ==
    IF error THEN -1
    ELSE IF short THEN Min(avail, n - 1)
    ELSE Min(avail, n)

\* NullResponse when a failed call has taken a byte off the socket.
NullResponse_byte_consumed(rx, st, syscalls) ==
    [null |-> TRUE, st |-> st, ptr |-> 0, end |-> 0, capacity |-> 0,
     received |-> 0, header |-> 0, mem |-> <<>>, syscalls |-> syscalls,
     sock |-> IF rx = <<>> THEN rx ELSE Tail(rx)]

\* The response of watchman_send_query when it returns NULL; rx are the bytes
\* left on the socket and syscalls the socket calls made.
NullResponse(rx, st, syscalls) ==
    [null |-> TRUE, st |-> st, ptr |-> 0, end |-> 0, capacity |-> 0,
     received |-> 0, header |-> 0, mem |-> <<>>, syscalls |-> syscalls,
     sock |-> rx]

\* SendFailed without the test for a short count.
SendFailed_error_only(sent, length) == sent = -1

\* sent == -1 || sent != length
SendFailed(sent, length) == sent = -1 \/ sent # length

\* received == -1 || received != wanted
RecvFailed(received, wanted) == received = -1 \/ received # wanted

\* watchman_send_query(w, socket).  `queued` are the bytes waiting on the
\* socket, `reply` what the daemon writes once it has the request, `fault`
\* the socket call that fails.  The result is the response (`mem` holding
\* the bytes stored at r->payload, ptr and end as offsets into it), the
\* socket calls made and the bytes left on the socket; st is "abort" when
\* the call ends in abort().
watchman_send_query(w, queued, reply, fault) ==
    LET length == w.length
        sent == CASE fault = "send_error" -> -1
                  [] fault = "send_short" -> length - 1
                  [] OTHER -> length
    IN
    IF SendFailed(sent, length)
    THEN NullResponse(queued, "ok", <<"send">>)
    ELSE
    LET rx == queued \o reply
        sniffed == Recv(Len(rx), WATCHMAN_SNIFF_BUFFER_SIZE,
                        fault = "sniff_error", fault = "sniff_short")
    IN
    IF RecvFailed(sniffed, WATCHMAN_SNIFF_BUFFER_SIZE)
    THEN NullResponse(rx, "ok", <<"send", "peek">>)
    ELSE
    LET sizes_idx == Int8Cast(rx[Len(WATCHMAN_BINARY_MARKER) + 1])
    IN
    IF sizes_idx < WATCHMAN_INT8_MARKER \/ sizes_idx > WATCHMAN_INT64_MARKER
    THEN NullResponse(rx, "ok", <<"send", "peek">>)
    ELSE
    LET peek_size == Len(WATCHMAN_BINARY_MARKER) + SizeofInt8 + IntWidth(sizes_idx)
        peeked == Recv(Len(rx), peek_size, fault = "peek_error", fault = "peek_short")
    IN
    IF RecvFailed(peeked, peek_size)
    THEN NullResponse(rx, "ok", <<"send", "peek", "peek">>)
    ELSE
    LET ptr0 == Len(WATCHMAN_BINARY_MARKER) + 1 - SizeofInt8
        end0 == ptr0 + peek_size
        size == watchman_read_int(SubSeq(rx, 1, peek_size), ptr0, end0)
        payload_size == peek_size + size.val
    IN
    IF size.st # "ok" \/ payload_size <= 0
    THEN NullResponse(rx, "abort", <<"send", "peek", "peek">>)
    ELSE
    LET received == Recv(Len(rx), payload_size,
                         fault = "read_error", fault = "read_short")
        taken == IF received < 0 THEN 0 ELSE received
    IN
    IF RecvFailed(received, payload_size)
    THEN NullResponse(SubSeq(rx, taken + 1, Len(rx)), "ok",
                      <<"send", "peek", "peek", "recv">>)
    ELSE [null |-> FALSE, st |-> "ok",
          ptr |-> peek_size,
          end |-> peek_size + payload_size,
          capacity |-> payload_size,
          received |-> received,
          header |-> peek_size,
          mem |-> SubSeq(rx, 1, payload_size),
          syscalls |-> <<"send", "peek", "peek", "recv">>,
          sock |-> SubSeq(rx, payload_size + 1, Len(rx))]

(***************************************************************************)
(* watchman.c: the query operations.                                       *)
(***************************************************************************)
\* The loop of commandt_watchman_watch_project over the `n` pairs that are
\* left; res = [watch, relative_path] is the result struct so far.
RECURSIVE WatchProjectFields(_, _, _, _, _)
WatchProjectFields(mem, ptr, end, n, res) ==
    IF n = 0
    THEN [st |-> "ok", ptr |-> ptr, res |-> res]
    ELSE
    With(watchman_read_string(mem, ptr, end), LAMBDA key :
    IF key.st # "ok"
    THEN [st |-> key.st, ptr |-> key.ptr, res |-> res]
    ELSE IF key.val = WatchChars
    THEN With(watchman_read_string(mem, key.ptr, end), LAMBDA watch :
             IF watch.st # "ok"
             THEN [st |-> watch.st, ptr |-> watch.ptr, res |-> res]
             ELSE WatchProjectFields(mem, watch.ptr, end, n - 1,
                                     [res EXCEPT !.watch = Some(watch.val)]))
    ELSE IF key.val = RelativePathChars
    THEN With(watchman_read_string(mem, key.ptr, end), LAMBDA relative_path :
             IF relative_path.st # "ok"
             THEN [st |-> relative_path.st, ptr |-> relative_path.ptr, res |-> res]
             ELSE WatchProjectFields(mem, relative_path.ptr, end, n - 1,
                      [res EXCEPT !.relative_path = Some(relative_path.val)]))
    ELSE IF key.val = ErrorChars
    THEN [st |-> "abort", ptr |-> key.ptr, res |-> res]
    ELSE With(watchman_skip_value(mem, key.ptr, end), LAMBDA skipped :
             IF skipped.st # "ok"
             THEN [st |-> skipped.st, ptr |-> skipped.ptr, res |-> res]
             ELSE WatchProjectFields(mem, skipped.ptr, end, n - 1, res)))

\* The processing of the response in commandt_watchman_watch_project, from
\* xcalloc of the result to the test of result->watch.
WatchProjectResult(mem, ptr, end) ==
    With(watchman_read_object(mem, ptr, end), LAMBDA cnt :
        IF cnt.st # "ok"
        THEN [st |-> cnt.st, ptr |-> cnt.ptr,
              res |-> [watch |-> None, relative_path |-> None]]
        ELSE With(WatchProjectFields(mem, cnt.ptr, end, cnt.val,
                                     [watch |-> None, relative_path |-> None]),
                  LAMBDA fields :
                 IF fields.st = "ok" /\ fields.res.watch = None
                 THEN [fields EXCEPT !.st = "abort"]
                 ELSE fields))

(***************************************************************************)
(* The daemon.  It answers a request with the bytes of a reply: a frame    *)
(* (marker, size tag, declared length, body), possibly with a wrong        *)
(* declared length or size tag, possibly followed by a later message.      *)
(***************************************************************************)
Frame(tag, declared, body) ==
    WATCHMAN_BINARY_MARKER \o <<tag>> \o LEBytes(declared, IntWidth(tag)) \o body

WatchPair == [k |-> WatchChars, v |-> StrValue(<<47, 112>>)]
RelativePathPair == [k |-> RelativePathChars, v |-> StrValue(<<115>>)]
ErrorPair == [k |-> ErrorChars, v |-> StrValue(<<102>>)]

\* The values the daemon sends under a key the client does not know.
OtherValues ==
    {IntValue(WATCHMAN_INT8_MARKER, 1), IntValue(WATCHMAN_INT16_MARKER, 300),
     StrValue(<<97>>), DoubleValue, TrueValue, NilValue,
     ArrayValue(<<IntValue(WATCHMAN_INT8_MARKER, 1)>>),
     ObjectValue(<<>>),
     ObjectValue(<<[k |-> KeyName(1), v |-> IntValue(WATCHMAN_INT8_MARKER, 1)]>>),
     ObjectValue(<<[k |-> KeyName(1), v |-> StrValue(WatchChars)]>>),
     TemplateValue(<<KeyName(1)>>, <<(<<IntValue(WATCHMAN_INT8_MARKER, 1)>>)>>)}

OtherPairs == {[k |-> <<120>>, v |-> v] : v \in OtherValues}

\* The objects the daemon answers with: up to MaxPairs pairs with distinct
\* keys, in any order.
ResponseObjects ==
    {q \in SeqsUpTo({WatchPair, RelativePathPair, ErrorPair} \cup OtherPairs, MaxPairs) :
        \A i, j \in DOMAIN q : i # j => q[i].k # q[j].k}

BaseObjects == {<<WatchPair>>, <<RelativePathPair, WatchPair>>, <<ErrorPair>>}

\* A message the daemon may have queued behind its reply.
LaterMessage ==
    LET body == BserEncode(ObjectValue(<<[k |-> WatchChars, v |-> StrValue(<<47, 113>>)]>>))
    IN  Frame(WATCHMAN_INT8_MARKER, Len(body), body)

MakeReply(tag, delta, pairs, later) ==
    LET body == BserEncode(ObjectValue(pairs))
    IN  [bytes |-> Frame(tag, Len(body) + delta, body) \o later,
         tagged |-> IntWidth(tag) # 0,
         declared |-> Len(body) + delta,
         actual |-> Len(body),
         more |-> later # <<>>,
         pairs |-> pairs]

ValidSizeTags == {WATCHMAN_INT8_MARKER, WATCHMAN_INT16_MARKER,
                  WATCHMAN_INT32_MARKER, WATCHMAN_INT64_MARKER}
BadSizeTags == {WATCHMAN_STRING_MARKER, WATCHMAN_DOUBLE_MARKER, 200}

\* Replies framed as the protocol says, one for each object.
WellFramedReplies ==
    {MakeReply(WATCHMAN_INT8_MARKER, 0, pairs, <<>>) : pairs \in ResponseObjects}

\* The replies the socket faults are combined with.
StdReplies ==
    {MakeReply(WATCHMAN_INT8_MARKER, 0, pairs, <<>>) : pairs \in BaseObjects}

\* Replies with every size tag, with a declared length that is one too small
\* or too large, and with a later message behind them.
BaseReplies ==
    {MakeReply(tag, delta, pairs, later) :
        tag \in ValidSizeTags, delta \in {-1, 0, 1}, pairs \in BaseObjects,
        later \in {<<>>, LaterMessage}}
    \cup {MakeReply(tag, 0, pairs, <<>>) : tag \in BadSizeTags, pairs \in BaseObjects}

Replies == WellFramedReplies \cup BaseReplies

\* The string under `key` in an object of the daemon, None without the key.
StringUnder(pairs, key) ==
    IF \E i \in DOMAIN pairs : pairs[i].k = key
    THEN Some((CHOOSE pr \in {pairs[i] : i \in DOMAIN pairs} : pr.k = key).v.s)
    ELSE None

\* What the call was given and what the daemon answered, as the claims need
\* it.
Exchange(reply, fault, root, relative_root) ==
    [fresh |-> sock = <<>>, fault |-> fault, tagged |-> reply.tagged,
     root |-> root, relative_root |-> relative_root,
     declared |-> reply.declared, actual |-> reply.actual, more |-> reply.more,
     sent |-> Len(reply.bytes),
     watch |-> StringUnder(reply.pairs, WatchChars),
     relative_path |-> StringUnder(reply.pairs, RelativePathChars),
     error |-> \E i \in DOMAIN reply.pairs : reply.pairs[i].k = ErrorChars]

\* The content of the bytes of the response buffer that recv() did not fill.
JunkBytes == {0, WATCHMAN_STRING_MARKER}

\* The paths callers pass, as C strings.
Roots == {Literal(<<47>>), Literal(<<47, 112>>)}
RelativeRoots == {None, Some(Literal(<<115>>))}

\* The exchanges the model runs a call on: each base reply with each junk
\* byte, the other well-framed replies, and each socket fault with a standard
\* reply.  `base` marks the exchanges a query is run on, `again` those that
\* also answer a call after the first (what such a call adds is the bytes
\* the earlier call left in the socket).
Scenarios ==
    {[reply |-> reply, fault |-> "none", junk |-> junk, base |-> TRUE,
      again |-> reply \in StdReplies /\ junk = 0] :
        reply \in BaseReplies, junk \in JunkBytes}
    \cup {[reply |-> reply, fault |-> "none", junk |-> 0, base |-> FALSE,
           again |-> FALSE] :
            reply \in WellFramedReplies \ BaseReplies}
    \cup {[reply |-> reply, fault |-> fault, junk |-> 0, base |-> TRUE,
           again |-> TRUE] :
            reply \in StdReplies, fault \in Faults \ {"none"}}

\* commandt_watchman_query does not look into the response.
QueryScenarios == {sc \in Scenarios : sc.base /\ sc.junk = 0}

\* The exchanges of the n-th call after the first.
LaterScenarios == {sc \in Scenarios : sc.again}
ScenariosAt(n) == IF n = 0 THEN Scenarios ELSE LaterScenarios
QueryScenariosAt(n) == IF n = 0 THEN QueryScenarios ELSE LaterScenarios

(***************************************************************************)
(* TransportSpec: a process that calls the query operations on one socket. *)
(***************************************************************************)
ResponseFields(r) ==
    [null |-> r.null, ptr |-> r.ptr, end |-> r.end, capacity |-> r.capacity,
     received |-> r.received, header |-> r.header, syscalls |-> r.syscalls]

\* The buffers of one call: watchman_init allocates the request and
\* watchman_send_query the response, before its first socket call; nothing
\* calls watchman_free, and watchman_response_free is the last step of the
\* path that returns a result.
Allocs(response_freed) ==
    [request |-> 1, request_freed |-> 0,
     response |-> 1, response_freed |-> response_freed]

TransportInit ==
    /\ IdleQueries
    /\ IdleOthers
    /\ IdleHeap
    /\ IdleCodec

\* commandt_watchman_watch_project(root, socket)
WatchProject(root, reply, fault, junk, again) ==
    /\ proc = "running"
    /\ ncalls < MaxCalls
    /\ ncalls = 0 \/ again
    /\ \E w \in {WatchProjectRequest(root)} :
       \E r \in {watchman_send_query(w, sock, reply.bytes, fault)} :
       \E d \in {IF r.null THEN [st |-> "none"]
                 ELSE WatchProjectResult(r.mem \o [i \in 1..r.header |-> junk],
                                         r.ptr, r.end)} :
           /\ wire' = SubSeq(w.payload, 1, w.length)
           /\ sock' = r.sock
           /\ response' = ResponseFields(r)
           /\ IF r.st = "abort"
              THEN /\ proc' = "aborted"
                   /\ outcome' = "abort"
                   /\ result' = [watch |-> None, relative_path |-> None]
              ELSE IF r.null
              THEN \* watchman_read_object(r) reads r->ptr through the null r
                   /\ proc' = "crashed"
                   /\ outcome' = "null_dereference"
                   /\ result' = [watch |-> None, relative_path |-> None]
              ELSE IF d.st = "ok"
              THEN /\ proc' = "running"
                   /\ outcome' = "returned"
                   /\ result' = d.res
              ELSE /\ proc' = IF d.st = "abort" THEN "aborted" ELSE "crashed"
                   /\ outcome' = IF d.st = "abort" THEN "abort" ELSE "undefined"
                   /\ result' = [watch |-> None, relative_path |-> None]
    /\ call' = "watch_project"
    /\ ncalls' = ncalls + 1
    /\ allocs' = Allocs(IF outcome' = "returned" THEN 1 ELSE 0)
    /\ exchange' = Exchange(reply, fault, root, None)
    /\ UNCHANGED <<heapVars, streamVars, codecVars, otherVars>>

\* commandt_watchman_query(root, relative_root, socket)
Query(root, relative_root, reply, fault, again) ==
    /\ proc = "running"
    /\ ncalls < MaxCalls
    /\ ncalls = 0 \/ again
    /\ \E w \in {QueryRequest(root, relative_root)} :
       \E r \in {watchman_send_query(w, sock, reply.bytes, fault)} :
           /\ wire' = SubSeq(w.payload, 1, w.length)
           /\ sock' = r.sock
           /\ response' = ResponseFields(r)
           /\ IF r.st = "abort"
              THEN /\ proc' = "aborted"
                   /\ outcome' = "abort"
              ELSE IF r.null
              THEN \* watchman_response_free(response) reads response->payload
                   /\ proc' = "crashed"
                   /\ outcome' = "null_dereference"
              ELSE /\ proc' = "running"
                   /\ outcome' = "returned"
    /\ result' = [watch |-> None, relative_path |-> None]
    /\ call' = "query"
    /\ ncalls' = ncalls + 1
    /\ allocs' = Allocs(IF outcome' = "returned" THEN 1 ELSE 0)
    /\ exchange' = Exchange(reply, fault, root, relative_root)
    /\ UNCHANGED <<heapVars, streamVars, codecVars, otherVars>>

TransportNext ==
    \/ \E root \in Roots, sc \in ScenariosAt(ncalls) :
           WatchProject(root, sc.reply, sc.fault, sc.junk, sc.again)
    \/ \E root \in Roots, relative_root \in RelativeRoots,
          sc \in QueryScenariosAt(ncalls) :
           Query(root, relative_root, sc.reply, sc.fault, sc.again)

TransportSpec == TransportInit /\ [][TransportNext]_vars

(***************************************************************************)
(* The framing of requests and the handling of responses.                  *)
(***************************************************************************)
\* The length field of the header at the front of `bytes`, read the way
\* watchman_send_query reads the header of a response.
HeaderLength(bytes) ==
    watchman_read_int(bytes, Len(WATCHMAN_BINARY_MARKER), Len(bytes))

\* C7: for every request that watch-project or query hands to the transport,
\* the length field in the header of the bytes sent equals the number of
\* payload bytes that follow the header.
C7_HeaderLengthIsPayloadLength ==
    call # "none" =>
        /\ HeaderLength(wire).st = "ok"
        /\ HeaderLength(wire).val = Len(wire) - HeaderLength(wire).ptr

\* The exchange of the last call was undisturbed: nothing was queued on the
\* socket before it and no socket call failed.
CleanExchange ==
    /\ call # "none"
    /\ exchange.fresh
    /\ exchange.fault = "none"

\* C8: when the length declared in the header of a response differs from the
\* number of payload bytes the daemon sends for that message,
\* watchman_send_query returns no response.
C8_LengthMismatchYieldsNoResponse ==
    (CleanExchange /\ exchange.tagged /\ exchange.declared # exchange.actual)
        => response.null

\* C9: when the transport yields no response, watch-project and query report
\* the failure without dereferencing the missing response, and the process
\* stays able to run a later query.
C9_NoResponseIsReported ==
    (call # "none" /\ response.null /\ outcome # "abort")
        => (outcome # "null_dereference" /\ proc = "running")

\* C10: for a well-formed watch-project response with a "watch" key and no
\* "error" key, in any key order and with any other keys and value types,
\* the call returns a result whose watch is the string under "watch" and
\* whose relative_path is the string under "relative_path", null without
\* that key.
C10_WatchProjectResultMatchesResponse ==
    (/\ CleanExchange
     /\ call = "watch_project"
     /\ exchange.tagged
     /\ exchange.declared = exchange.actual
     /\ exchange.watch # None
     /\ ~exchange.error)
        => /\ outcome = "returned"
           /\ result.watch = exchange.watch
           /\ result.relative_path = exchange.relative_path

\* The last call was a watch-project whose response arrived whole and framed
\* as the protocol says.
WellFramedWatchProject ==
    /\ CleanExchange
    /\ call = "watch_project"
    /\ exchange.tagged
    /\ exchange.declared = exchange.actual

\* C11: commandt_watchman_watch_project never returns a result whose watch
\* field is null; a response object that contains an "error" key, or that
\* lacks the "watch" key, ends in a failure and not in a returned result.
C11_NoResultWithoutWatch ==
    /\ (call = "watch_project" /\ outcome = "returned") => result.watch # None
    /\ (WellFramedWatchProject /\ (exchange.error \/ exchange.watch = None))
            => outcome # "returned"

\* The part of C11 the code keeps: a returned result has a watch field.
ReturnedResultHasWatch ==
    (call = "watch_project" /\ outcome = "returned") => result.watch # None

\* C12: commandt_watchman_query consumes the response of the daemon before
\* it builds its result: a response object with an "error" key makes the
\* call return NULL, not a result.
C12_QueryFailsOnError ==
    (/\ CleanExchange
     /\ call = "query"
     /\ exchange.tagged
     /\ exchange.declared = exchange.actual
     /\ exchange.error)
        => outcome # "returned"

(***************************************************************************)
(* What watchman_send_query takes off the socket.                          *)
(***************************************************************************)
\* The last call found the socket empty, so that the header it read is the
\* header of the reply to its own request.
FreshCall == call # "none" /\ exchange.fresh

PeekFaults == {"sniff_error", "sniff_short", "peek_error", "peek_short"}

\* C13: the two peeks of watchman_send_query consume nothing; a successful
\* receive consumes exactly the header bytes plus the declared payload length
\* and nothing of a following message; when a peek fails (or the size tag read
\* by the peek is refused) every byte the daemon wrote is still on the socket.
C13_ReceiveConsumesOnePdu ==
    FreshCall =>
        /\ ~response.null =>
              Len(sock) = exchange.sent - (response.header + exchange.declared)
        /\ (~response.null /\ exchange.declared = exchange.actual /\ exchange.more)
              => sock = LaterMessage
        /\ (exchange.fault \in PeekFaults \/ (exchange.fault = "none" /\ ~exchange.tagged))
              => (response.null /\ Len(sock) = exchange.sent)

\* A response was received whole while a later message was queued behind it.
C13_Witness ==
    /\ FreshCall
    /\ ~response.null
    /\ exchange.declared = exchange.actual
    /\ exchange.more
    /\ sock = LaterMessage

\* watchman_send_query came back with NULL.
ReturnedNull == response.null /\ outcome # "abort"

\* C14: watchman_send_query returns NULL whenever the send fails or is
\* short, whenever a peek or the final read fails or is short, and whenever
\* the size tag is not one of the four integer tags; after a failed or short
\* send it makes no other socket call.
C14_FailuresYieldNull ==
    call # "none" =>
        /\ exchange.fault # "none" => ReturnedNull
        /\ (exchange.fresh /\ exchange.fault = "none" /\ ~exchange.tagged)
              => ReturnedNull
        /\ exchange.fault \in {"send_error", "send_short"}
              => response.syscalls = <<"send">>

\* A short send was answered with NULL after the one send().
C14_Witness ==
    /\ call # "none"
    /\ exchange.fault = "send_short"
    /\ ReturnedNull
    /\ response.syscalls = <<"send">>

(***************************************************************************)
(* RoundTripSpec: a value is written with watchman_write_int or            *)
(* watchman_write_string, and the bytes written are handed to the decode   *)
(* operations as a response.                                               *)
(***************************************************************************)
INT32_MAX == 2147483647
INT32_MIN == (-2147483647) - 1

\* The integers written: those within the range of int32_t as numbers ...
SmallInts ==
    {0, 1, -1, 100, 127, 128, -127, -128, -129, 255, 256, -256, 1000, 32767,
     32768, -32768, -32769, 65535, 65536, 100000, INT32_MAX - 1, INT32_MAX,
     INT32_MIN + 1, INT32_MIN}

\* ... and those outside it as the bytes of the int64_t, least significant
\* first: 2^31, -2^31 - 1, 2^32 - 1, 2^32, -2^32, 2^40, 2^63 - 1, -2^63.
LargeInts ==
    {<<0, 0, 0, 128, 0, 0, 0, 0>>,
     <<255, 255, 255, 127, 255, 255, 255, 255>>,
     <<255, 255, 255, 255, 0, 0, 0, 0>>,
     <<0, 0, 0, 0, 1, 0, 0, 0>>,
     <<0, 0, 0, 0, 255, 255, 255, 255>>,
     <<0, 0, 0, 0, 0, 1, 0, 0>>,
     <<255, 255, 255, 255, 255, 255, 255, 127>>,
     <<0, 0, 0, 0, 0, 0, 0, 128>>}

IntInputs ==
    {[t |-> "int64", bits |-> Int64Of(n), int32 |-> TRUE, num |-> n] : n \in SmallInts}
    \cup {[t |-> "int64", bits |-> b, int32 |-> FALSE, num |-> 0] : b \in LargeInts}

\* The byte strings written: every string of up to MaxStrLen bytes over
\* StrBytes, and strings around the length where the length field widens.
StrBytes == {0, 97, 255}
LongLengths == {127, 128, 300}
StrInputs ==
    {[t |-> "bytes", s |-> str] : str \in SeqsUpTo(StrBytes, MaxStrLen)}
    \cup {[t |-> "bytes", s |-> [i \in 1..n |-> 97]] : n \in LongLengths}

\* The bytes a request holds after its header.
Appended(w) == SubSeq(w.payload, Len(WATCHMAN_HEADER) + 1, w.length)

RoundTripInit ==
    /\ encoded \in {[v EXCEPT !.trailer = tr] :
                      v \in {[trailer |-> <<>>] @@ x : x \in IntInputs \cup StrInputs},
                      tr \in Trailers}
    /\ rPayload = <<>>
    /\ rPtr = 0
    /\ rEnd = 0
    /\ decoding = "idle"
    /\ lastDecode = "none"
    /\ entryPtr = 0
    /\ decoded = <<>>
    /\ readTop = 0
    /\ IdleHeap
    /\ IdleQueries
    /\ IdleOthers

\* watchman_write_int(w, num) on a fresh request
WriteInt ==
    /\ decoding = "idle"
    /\ encoded.t = "int64"
    /\ \E w \in {watchman_write_int64(watchman_init, encoded.bits)} :
          /\ rPayload' = Appended(w) \o encoded.trailer
          /\ rEnd' = Len(Appended(w)) + Len(encoded.trailer)
    /\ rPtr' = 0
    /\ decoding' = "live"
    /\ lastDecode' = "watchman_write_int"
    /\ UNCHANGED <<entryPtr, decoded, readTop, encoded, heapVars, streamVars, queryVars, otherVars>>

\* watchman_write_string(w, string, length) on a fresh request
WriteString ==
    /\ decoding = "idle"
    /\ encoded.t = "bytes"
    /\ \E w \in {watchman_write_string(watchman_init, encoded.s, Len(encoded.s))} :
          /\ rPayload' = Appended(w) \o encoded.trailer
          /\ rEnd' = Len(Appended(w)) + Len(encoded.trailer)
    /\ rPtr' = 0
    /\ decoding' = "live"
    /\ lastDecode' = "watchman_write_string"
    /\ UNCHANGED <<entryPtr, decoded, readTop, encoded, heapVars, streamVars, queryVars, otherVars>>

RoundTripNext ==
    \/ WriteInt
    \/ WriteString
    \/ ReadInt
    \/ ReadString
    \/ ReadDouble
    \/ ReadArray
    \/ ReadObject
    \/ SkipValue

RoundTripSpec == RoundTripInit /\ [][RoundTripNext]_vars

\* The narrowest integer tag whose range holds the value written.
NarrowestTag(v) ==
    IF ~v.int32 THEN WATCHMAN_INT64_MARKER
    ELSE IF -128 <= v.num /\ v.num <= 127 THEN WATCHMAN_INT8_MARKER
    ELSE IF -32768 <= v.num /\ v.num <= 32767 THEN WATCHMAN_INT16_MARKER
    ELSE WATCHMAN_INT32_MARKER

\* The first decode operation on the bytes written was `name`.
FirstDecode(name) == lastDecode = name /\ entryPtr = 0

\* C15: watchman_write_int followed by watchman_read_int returns the integer
\* written, for every integer of 64 bits, and leaves the cursor just after
\* the encoding; the tag written is the narrowest of the 8/16/32/64-bit tags
\* whose range holds the integer.
C15_IntRoundTrip ==
    /\ (decoding = "live" /\ encoded.t = "int64")
          => rPayload[1] = NarrowestTag(encoded)
    /\ (FirstDecode("watchman_read_int") /\ encoded.t = "int64")
          => /\ decoding = "live"
             /\ decoded = encoded.bits
             /\ rPtr = 1 + IntWidth(NarrowestTag(encoded))
             /\ rPtr = rEnd - Len(encoded.trailer)

\* 2^31, the first integer beyond int32_t, has been written and read back.
C15_Witness ==
    /\ FirstDecode("watchman_read_int")
    /\ encoded.t = "int64"
    /\ encoded.bits = <<0, 0, 0, 128, 0, 0, 0, 0>>
    /\ decoded = encoded.bits
    /\ rPayload[1] = WATCHMAN_INT64_MARKER

\* The size of the length field of a string of n bytes: a tag and the
\* narrowest integer that holds n.
LengthFieldSize(n) ==
    IF n <= 127 THEN 1 + SizeofInt8
    ELSE IF n <= 32767 THEN 1 + SizeofInt16
    ELSE 1 + SizeofInt32

RECURSIVE RequestStrings(_, _, _)
RequestStrings(payload, ptr, end) ==
    IF ptr >= end THEN <<>>
    ELSE LET marker == ByteAt(payload, ptr)
             item == CASE marker = WATCHMAN_ARRAY_MARKER ->
                            watchman_read_array(payload, ptr, end)
                       [] marker = WATCHMAN_OBJECT_MARKER ->
                            watchman_read_object(payload, ptr, end)
                       [] OTHER -> watchman_read_string(payload, ptr, end)
         IN  IF item.st # "ok" THEN <<"?">>
             ELSE (IF marker = WATCHMAN_STRING_MARKER THEN <<item.val>> ELSE <<>>)
                  \o RequestStrings(payload, item.ptr, end)

\* The bytes of the C string cstr, without its terminator.
CStringBytes(cstr) == SubSeq(cstr, 1, strlen(cstr))

\* The bytes sent after the header.
WireBody == SubSeq(wire, Len(WATCHMAN_HEADER) + 1, Len(wire))

\* C17: the watch-project request is a two-element array whose first element
\* decodes to the 13 bytes of "watch-project" and whose second decodes to the
\* bytes of root; every fixed string of the query request is encoded with
\* its character bytes only.
C17_RequestStringsAreExact ==
    /\ call = "watch_project" =>
          /\ watchman_read_array(WireBody, 0, Len(WireBody)).val = 2
          /\ RequestStrings(WireBody, 0, Len(WireBody))
                = <<WatchProjectChars, CStringBytes(exchange.root)>>
    /\ call = "query" =>
          RequestStrings(WireBody, 0, Len(WireBody))
            = <<QueryChars, CStringBytes(exchange.root), ExpressionChars,
                TypeChars, FChars, FieldsChars, NameChars>>
              \o (IF exchange.relative_root = None THEN <<>>
                  ELSE <<RelativeRootChars,
                         CStringBytes(exchange.relative_root[1])>>)

\* What the requests do hold: each fixed string with a zero byte behind it,
\* the caller's strings as they are.
RequestStringsCarryTerminator ==
    /\ call = "watch_project" =>
          RequestStrings(WireBody, 0, Len(WireBody))
            = <<Literal(WatchProjectChars), CStringBytes(exchange.root)>>
    /\ call = "query" =>
          RequestStrings(WireBody, 0, Len(WireBody))
            = <<Literal(QueryChars), CStringBytes(exchange.root),
                Literal(ExpressionChars), Literal(TypeChars), Literal(FChars),
                Literal(FieldsChars), Literal(NameChars)>>
              \o (IF exchange.relative_root = None THEN <<>>
                  ELSE <<Literal(RelativeRootChars),
                         CStringBytes(exchange.relative_root[1])>>)

(***************************************************************************)
(* The buffers of a call.                                                  *)
(***************************************************************************)
\* C18: on every exit of watch-project and query, also where
\* watchman_send_query returns no response, the response buffer allocated for
\* the call has been released exactly once.
C18_ResponseReleasedOnce ==
    (call # "none" /\ outcome # "abort")
        => allocs.response_freed = allocs.response

\* What the code holds to: a call that returns a result has released its
\* response buffer exactly once.
ResponseReleasedOnReturn ==
    (call # "none" /\ outcome = "returned")
        => (allocs.response = 1 /\ allocs.response_freed = 1)

\* C19: the request buffer that watchman_init created for a call has been
\* freed by the time the call returns, whether the exchange succeeded or
\* failed.
C19_RequestFreedOnReturn ==
    (call # "none" /\ outcome = "returned")
        => allocs.request_freed = allocs.request

(***************************************************************************)
(* The cursors of a response.                                              *)
(***************************************************************************)
\* watchman_send_query returned a response to a call on a fresh socket.
GotResponse == FreshCall /\ ~response.null

\* C22: after a successful watchman_send_query the cursors delimit the
\* payload bytes received for the message: ptr is the first payload byte
\* after the header, end - ptr is the payload length the header declares,
\* and end lies neither beyond the bytes received nor beyond the capacity of
\* the buffer.
C22_CursorsDelimitPayload ==
    GotResponse =>
        /\ response.ptr = response.header
        /\ response.end - response.ptr = exchange.declared
        /\ response.end <= response.received
        /\ response.end <= response.capacity

\* What the cursors are: ptr is behind the header, and end lies the length
\* of the header behind the last byte received, which is where the capacity
\* recorded for the buffer ends.
EndLiesHeaderBeyondReceived ==
    GotResponse =>
        /\ response.ptr = response.header
        /\ response.received = response.header + exchange.declared
        /\ response.capacity = response.received
        /\ response.end = response.received + response.header

(***************************************************************************)
(* TruncSpec: the decode operations applied to a response whose end lies   *)
(* inside (or right behind) the encoding of a value.  The bytes of the     *)
(* value from `end` on are in memory behind the response.                  *)
(***************************************************************************)
TruncInit ==
    /\ \E v \in NestedValues(MaxDepth) :
          /\ rPayload = BserEncode(v)
          /\ encoded = v
    /\ rEnd \in 0..Len(rPayload)
    /\ rPtr = 0
    /\ decoding = "live"
    /\ lastDecode = "none"
    /\ entryPtr = 0
    /\ decoded = <<>>
    /\ readTop = 0
    /\ IdleHeap
    /\ IdleQueries
    /\ IdleOthers

TruncNext ==
    \/ ReadInt
    \/ ReadString
    \/ ReadDouble
    \/ ReadArray
    \/ ReadObject
    \/ SkipValue

TruncSpec == TruncInit /\ [][TruncNext]_vars

\* The bytes that the operation `name` needs of the value v it is applied
\* to: the whole value for watchman_skip_value and the scalar readers, the
\* marker and the count for watchman_read_array and watchman_read_object
\* (0: the operation is not the one for this value).
BytesNeeded(name, v) ==
    CASE name = "watchman_skip_value" -> Len(BserEncode(v))
      [] name = "watchman_read_int" /\ v.t = "int" -> Len(BserEncode(v))
      [] name = "watchman_read_string" /\ v.t = "str" -> Len(BserEncode(v))
      [] name = "watchman_read_double" /\ v.t = "dbl" -> Len(BserEncode(v))
      [] name = "watchman_read_array" /\ v.t = "arr" ->
            Len(EncodeArrayHeader(Len(v.items)))
      [] name = "watchman_read_object" /\ v.t = "obj" ->
            Len(EncodeObjectHeader(Len(v.pairs)))
      [] OTHER -> 0

\* The last operation ran at the start of the encoded value, where fewer
\* bytes remained before `end` than it needs.
DecodedTruncatedValue ==
    /\ lastDecode # "none"
    /\ entryPtr = 0
    /\ rEnd < BytesNeeded(lastDecode, encoded)

\* C20: every decode operation applied at a cursor where fewer bytes remain
\* before `end` than the value needs ends in abort(), and no decode
\* operation reads a byte at or beyond `end`.
C20_TruncatedDecodeAborts ==
    /\ DecodedTruncatedValue => decoding = "aborted"
    /\ readTop <= rEnd

\* What the code holds to: no decode operation reads a byte at or beyond
\* `end`, and every operation but watchman_skip_value on a value with an
\* object pair in it aborts on a truncated value.
TruncatedPairlessDecodeAborts ==
    /\ (DecodedTruncatedValue
            /\ ~(lastDecode = "watchman_skip_value" /\ HasPairs(encoded)))
        => decoding = "aborted"
    /\ readTop <= rEnd

(***************************************************************************)
(* RawSpec: the decode operations applied to a response of any bytes: a    *)
(* first byte that is a tag or not, followed by up to MaxRaw bytes or by   *)
(* the eight bytes of a double.                                            *)
(***************************************************************************)
MaxRaw == 3

RawTags == 0..13 \cup {128, 255}
RawBytes == {0, 1, 3, 128}
RawTails == SeqsUpTo(RawBytes, MaxRaw) \cup {DoubleValue.b}

RawInit ==
    /\ \E tag \in RawTags, tail \in RawTails : rPayload = <<tag>> \o tail
    /\ encoded = <<>>
    /\ rEnd = Len(rPayload)
    /\ rPtr = 0
    /\ decoding = "live"
    /\ lastDecode = "none"
    /\ entryPtr = 0
    /\ decoded = <<>>
    /\ readTop = 0
    /\ IdleHeap
    /\ IdleQueries
    /\ IdleOthers

RawNext ==
    \/ ReadInt
    \/ ReadString
    \/ ReadDouble
    \/ ReadArray
    \/ ReadObject
    \/ SkipValue

RawSpec == RawInit /\ [][RawNext]_vars

\* The tags an operation accepts at the cursor.
ExpectedTags(name) ==
    CASE name = "watchman_read_int" ->
            {WATCHMAN_INT8_MARKER, WATCHMAN_INT16_MARKER, WATCHMAN_INT32_MARKER,
             WATCHMAN_INT64_MARKER}
      [] name = "watchman_read_string" -> {WATCHMAN_STRING_MARKER}
      [] name = "watchman_read_double" -> {WATCHMAN_DOUBLE_MARKER}
      [] name = "watchman_read_array" -> {WATCHMAN_ARRAY_MARKER}
      [] name = "watchman_read_object" -> {WATCHMAN_OBJECT_MARKER}
      [] name = "watchman_skip_value" ->
            WATCHMAN_ARRAY_MARKER..WATCHMAN_SKIP_MARKER
      [] OTHER -> {}

\* The last operation ran at a cursor with a byte that is not a tag it
\* accepts.
DecodedUnexpectedTag ==
    /\ lastDecode # "none"
    /\ entryPtr < rEnd
    /\ ByteAt(rPayload, entryPtr) \notin ExpectedTags(lastDecode)

\* C21: each typed read, and watchman_skip_value, applied at a byte that is
\* not a tag it accepts ends in abort() and returns no value.
C21_UnexpectedTagAborts ==
    DecodedUnexpectedTag => (decoding = "aborted" /\ decoded = 0)

\* watchman_read_double reaches its test of the marker (nine bytes remain)
\* and finds another tag; watchman_skip_value finds a tag above 0x0c.
C21_Witness ==
    /\ DecodedUnexpectedTag
    /\ decoding = "aborted"
    /\ \/ lastDecode = "watchman_read_double" /\ rEnd - entryPtr >= 1 + SizeofDouble
       \/ lastDecode = "watchman_skip_value" /\ ByteAt(rPayload, entryPtr) = 13

\* The last operation returned to its caller.
DecodeReturned == lastDecode # "none" /\ decoding \in {"live", "strayed"}

\* The length or count that the bytes behind the tag at the entry cursor
\* declare.
DeclaredCount == watchman_read_int(rPayload, entryPtr + 1, rEnd)

\* The last operation read a string, array or object whose declared length
\* or count is negative.
DecodedNegativeCount ==
    /\ lastDecode \in {"watchman_read_string", "watchman_read_array",
                       "watchman_read_object"}
    /\ entryPtr < rEnd
    /\ ByteAt(rPayload, entryPtr) \in ExpectedTags(lastDecode)
    /\ DeclaredCount.st = "ok"
    /\ DeclaredCount.val < 0

\* C25: every decode operation that returns leaves the cursor not before its
\* position on entry and not after `end`, whatever the bytes of the response
\* are; a string, array or object with a negative declared length or count
\* ends in abort().
C25_CursorStaysInBounds ==
    /\ DecodeReturned => (entryPtr <= rPtr /\ rPtr <= rEnd)
    /\ DecodedNegativeCount => decoding = "aborted"

\* What the code holds to: arrays and objects with a negative count end in
\* abort(), and an operation that met no string of negative length returns
\* with the cursor between its entry position and `end`.
CursorInBoundsButForNegativeStrings ==
    /\ (lastDecode # "none" /\ decoding = "live")
            => (entryPtr <= rPtr /\ rPtr <= rEnd)
    /\ (DecodedNegativeCount /\ lastDecode # "watchman_read_string")
            => decoding = "aborted"

(***************************************************************************)
(* watchman.c: a request buffer under watchman_append.                     *)
(***************************************************************************)
MaxAppends == 3

\* The lengths handed to watchman_append: nothing, one byte, what fills the
\* first block to the brim and one byte more, a whole default block, and
\* lengths beyond the capacity plus the default.
AppendLengths == {0, 1, 4086, 4087, 4096, 8193, 12289}

Zeros(length) == [i \in 1..length |-> 0]

\* What realloc() may do with a block it is asked to grow: extend it where it
\* is, or hand out another block and free the one passed in.
ReallocOutcomes == {"in_place", "moved"}

\* The request watchman_init returns.
AppendInit ==
    /\ request = watchman_init
    /\ storage = [size |-> WATCHMAN_DEFAULT_STORAGE, live |-> TRUE]
    /\ appended = [n |-> 0, at |-> 0, length |-> Len(WATCHMAN_HEADER),
                   capacity |-> WATCHMAN_DEFAULT_STORAGE]
    /\ IdleHeap
    /\ IdleStream
    /\ IdleCodec
    /\ IdleQueries
    /\ IdleSteps
    /\ IdleSockets

\* A call watchman_append(w, data, length).  When the buffer must grow,
\* xrealloc's result is dropped: w->payload keeps pointing at the block passed
\* in, which has grown in place or has been freed.  Once w->payload dangles,
\* what further calls do is undefined and is not followed.
WatchmanAppend(length, grown) ==
    /\ storage.live
    /\ appended.n < MaxAppends
    /\ request' = watchman_append(request, Zeros(length), length)
    /\ IF request.length + length > request.capacity
       THEN storage' = IF grown = "moved"
                       THEN [size |-> storage.size, live |-> FALSE]
                       ELSE [size |-> request'.capacity, live |-> TRUE]
       ELSE grown = "in_place" /\ storage' = storage
    /\ appended' = [n |-> appended.n + 1, at |-> request.length,
                    length |-> length, capacity |-> request.capacity]
    /\ UNCHANGED <<heapVars, streamVars, codecVars, queryVars, stepVars,
                   socketVars>>

AppendNext ==
    \E length \in AppendLengths, grown \in ReallocOutcomes :
        WatchmanAppend(length, grown)

AppendSpec == AppendInit /\ [][AppendNext]_vars

\* C27: after every watchman_append, for every append length, length <=
\* capacity, payload refers to live storage of at least `capacity` bytes, and
\* the bytes the append wrote lie inside that storage.
C27_AppendStaysInStorage ==
    /\ request.length <= request.capacity
    /\ storage.live
    /\ storage.size >= request.capacity
    /\ appended.at + appended.length <= storage.size

\* What the code holds to: an append that fits the capacity it finds touches
\* neither capacity nor storage and writes inside it; one that does not fit
\* but is no longer than that capacity plus the default leaves length <=
\* capacity, and writes inside the block if realloc grew it in place.
AppendWithinCapacityStaysInStorage ==
    /\ (storage.live /\ appended.at <= appended.capacity
            /\ appended.length <= appended.capacity + WATCHMAN_DEFAULT_STORAGE)
        => /\ request.length <= request.capacity
           /\ storage.size >= request.capacity
           /\ appended.at + appended.length <= storage.size
    /\ (appended.at + appended.length <= appended.capacity /\ appended.n > 0)
        => /\ storage.live
           /\ request.capacity = appended.capacity

(***************************************************************************)
(* heap.c: heap_insert and heap_extract taken one loop iteration, and one  *)
(* call of heap_heapify, at a time.                                        *)
(***************************************************************************)
MaxStepVal == 2

\* The reads of one step, each with heap->count at the time of the read.
ReadAt(slots, cnt) == {[slot |-> i, count |-> cnt] : i \in slots}

\* The loop of heap_insert staying at idx after a swap.
sift_up_stay(cmp, ents, idx) ==
    IF idx = 0
    THEN [entries |-> ents, read |-> {}, done |-> TRUE, idx |-> idx]
    ELSE IF heap_property(cmp, ents, HEAP_PARENT(idx), idx)
         THEN [entries |-> ents, read |-> {HEAP_PARENT(idx), idx},
               done |-> TRUE, idx |-> idx]
         ELSE [entries |-> heap_swap(ents, idx, HEAP_PARENT(idx)),
               read |-> {HEAP_PARENT(idx), idx}, done |-> FALSE,
               idx |-> idx]

\* One test of the condition of heap_insert's loop, `idx &&
\* !heap_property(heap, parent_idx, idx)`, and one run of its body when the
\* condition holds.
sift_up(cmp, ents, idx) ==
    IF idx = 0
    THEN [entries |-> ents, read |-> {}, done |-> TRUE, idx |-> idx]
    ELSE IF heap_property(cmp, ents, HEAP_PARENT(idx), idx)
         THEN [entries |-> ents, read |-> {HEAP_PARENT(idx), idx},
               done |-> TRUE, idx |-> idx]
         ELSE [entries |-> heap_swap(ents, idx, HEAP_PARENT(idx)),
               read |-> {HEAP_PARENT(idx), idx}, done |-> FALSE,
               idx |-> HEAP_PARENT(idx)]

\* smallest_idx taking a right child at index count for one that exists.
smallest_idx_past_count(cmp, ents, cnt, idx) ==
    IF HEAP_RIGHT(idx) <= cnt
    THEN (IF heap_compare(cmp, ents, HEAP_LEFT(idx), HEAP_RIGHT(idx)) > 0
          THEN HEAP_LEFT(idx) ELSE HEAP_RIGHT(idx))
    ELSE IF HEAP_LEFT(idx) < cnt THEN HEAP_LEFT(idx) ELSE idx

\* smallest_idx of heap_heapify(heap, idx) with heap->count = cnt.
smallest_idx(cmp, ents, cnt, idx) ==
    IF HEAP_RIGHT(idx) < cnt
    THEN (IF heap_compare(cmp, ents, HEAP_LEFT(idx), HEAP_RIGHT(idx)) > 0
          THEN HEAP_LEFT(idx) ELSE HEAP_RIGHT(idx))
    ELSE IF HEAP_LEFT(idx) < cnt THEN HEAP_LEFT(idx) ELSE idx

\* The slots the computation of smallest_idx compares.
smallest_idx_reads(cnt, idx) ==
    IF HEAP_RIGHT(idx) < cnt THEN {HEAP_LEFT(idx), HEAP_RIGHT(idx)} ELSE {}

\* One call of heap_heapify(heap, idx), up to its recursive call.
heapify_step(cmp, ents, cnt, idx) ==
    With(smallest_idx(cmp, ents, cnt, idx), LAMBDA smallest :
        IF smallest # idx
        THEN IF ~heap_property(cmp, ents, idx, smallest)
             THEN [entries |-> heap_swap(ents, idx, smallest),
                   read |-> smallest_idx_reads(cnt, idx) \cup {idx, smallest},
                   done |-> FALSE, idx |-> smallest]
             ELSE [entries |-> ents,
                   read |-> smallest_idx_reads(cnt, idx) \cup {idx, smallest},
                   done |-> TRUE, idx |-> idx]
        ELSE [entries |-> ents, read |-> smallest_idx_reads(cnt, idx),
              done |-> TRUE, idx |-> idx])

HeapStepInit ==
    /\ \E cap \in 0..MaxCapacity, cmp \in Comparators : heap_new(cap, cmp)
    /\ IdleStream
    /\ IdleCodec
    /\ IdleQueries
    /\ IdleRequest
    /\ IdleSteps
    /\ IdleSockets

\* heap_insert(heap, value) up to its loop.
StartInsert(value) ==
    /\ hpc = "idle"
    /\ hcall' = [op |-> "heap_insert", value |-> value, heap |-> Heap]
    /\ arg' = value
    /\ reads' = {}
    /\ IF count = capacity
       THEN /\ lastOp' = "heap_insert"
            /\ touched' = {}
            /\ UNCHANGED <<count, entries, hpc, hidx>>
       ELSE /\ entries' = [entries EXCEPT ![count] = value]
            /\ count' = count + 1
            /\ touched' = {count}
            /\ hidx' = count
            /\ hpc' = "sift_up"
            /\ UNCHANGED lastOp
    /\ UNCHANGED <<capacity, comparator, extracted, streamVars, codecVars,
                   queryVars, requestVars, socketVars>>

\* One iteration of the loop of heap_insert, or its exit and the return.
SiftUp ==
    /\ hpc = "sift_up"
    /\ \E r \in {sift_up(comparator, entries, hidx)} :
           /\ entries' = r.entries
           /\ reads' = reads \cup ReadAt(r.read, count)
           /\ touched' = touched \cup r.read
           /\ hidx' = r.idx
           /\ hpc' = IF r.done THEN "idle" ELSE "sift_up"
           /\ lastOp' = IF r.done THEN "heap_insert" ELSE lastOp
    /\ UNCHANGED <<capacity, comparator, count, arg, extracted, hcall,
                   streamVars, codecVars, queryVars, requestVars, socketVars>>

\* heap_extract(heap) up to its call of heap_heapify.
StartExtract ==
    /\ hpc = "idle"
    /\ hcall' = [op |-> "heap_extract", value |-> NULL, heap |-> Heap]
    /\ IF count # 0
       THEN /\ extracted' = entries[0]
            /\ entries' = [entries EXCEPT ![0] = entries[count - 1]]
            /\ count' = count - 1
            /\ reads' = ReadAt({0, count - 1}, count)
            /\ touched' = {0, count - 1}
            /\ hidx' = 0
            /\ hpc' = "heapify"
            /\ UNCHANGED lastOp
       ELSE /\ extracted' = NULL
            /\ lastOp' = "heap_extract"
            /\ reads' = {}
            /\ touched' = {}
            /\ UNCHANGED <<count, entries, hpc, hidx>>
    /\ UNCHANGED <<capacity, comparator, arg, streamVars, codecVars,
                   queryVars, requestVars, socketVars>>

\* One call of heap_heapify: it recurses, or it returns and with it every
\* call of heap_heapify above it and heap_extract.
Heapify ==
    /\ hpc = "heapify"
    /\ \E r \in {heapify_step(comparator, entries, count, hidx)} :
           /\ entries' = r.entries
           /\ reads' = reads \cup ReadAt(r.read, count)
           /\ touched' = touched \cup r.read
           /\ hidx' = r.idx
           /\ hpc' = IF r.done THEN "idle" ELSE "heapify"
           /\ lastOp' = IF r.done THEN "heap_extract" ELSE lastOp
    /\ UNCHANGED <<capacity, comparator, count, arg, extracted, hcall,
                   streamVars, codecVars, queryVars, requestVars, socketVars>>

HeapStepNext ==
    \/ \E value \in 1..MaxStepVal : StartInsert(value)
    \/ SiftUp
    \/ StartExtract
    \/ Heapify

HeapStepSpec == HeapStepInit /\ [][HeapStepNext]_vars

\* A call that has begun keeps running: its loop and its recursion are not
\* suspended for ever.
FairHeapStepSpec ==
    HeapStepSpec /\ WF_vars(SiftUp) /\ WF_vars(Heapify)

\* A call taken step by step ends in the state the call taken as a whole
\* ends in.
StepsAgreeWithCalls ==
    /\ (hpc = "idle" /\ hcall.op = "heap_insert")
        => With(heap_insert(hcall.heap, hcall.value), LAMBDA r :
               /\ count = r.count
               /\ entries = r.entries
               /\ touched = r.touched
               /\ lastOp = "heap_insert")
    /\ (hpc = "idle" /\ hcall.op = "heap_extract")
        => With(heap_extract(hcall.heap), LAMBDA r :
               /\ count = r.count
               /\ entries = r.entries
               /\ touched = r.touched
               /\ extracted = r.extracted
               /\ lastOp = "heap_extract")

\* C28: heap_insert and heap_extract terminate for every heap state and every
\* comparator, one that returns 0 for all pairs or is no consistent order
\* included: the loop of heap_insert goes on at a strictly smaller index,
\* heap_heapify recurses at a strictly larger index below count, and every
\* call that has begun returns.
C28_HeapCallsTerminate ==
    /\ [][(hpc = "sift_up" /\ hpc' = "sift_up") => hidx' < hidx]_vars
    /\ [][(hpc = "heapify" /\ hpc' = "heapify")
            => (hidx' > hidx /\ hidx' < count)]_vars
    /\ (hpc # "idle") ~> (hpc = "idle")

\* Witness of C28: under the comparator that returns 0 for every pair,
\* heap_heapify has swapped the root of a heap of three with a child and has
\* been called again on that child.
C28_Witness ==
    /\ comparator = "always_zero"
    /\ hpc = "heapify"
    /\ hidx > 0
    /\ count = 3
    /\ [slot |-> 0, count |-> 3] \in reads

\* C29: every entries[] slot that heap_insert, heap_heapify and heap_extract
\* read or compare has an index below count at the time of the access, and so
\* below capacity; the parent index computed for idx == 0 is never used, and
\* heap_heapify called after the last entry was extracted reads no slot.
C29_ReadsBelowCount ==
    /\ \A a \in reads :
           a.slot >= 0 /\ a.slot < a.count /\ a.count <= capacity
    /\ \A a \in reads : a.slot # UINT_MAX_HALF
    /\ (hcall.op = "heap_extract" /\ count = 0)
        => reads \subseteq ReadAt({0}, 1)

\* Witness of C29: a heap that held four entries has had its last entry
\* extracted, and heap_heapify has returned.
C29_Witness ==
    /\ hpc = "idle"
    /\ hcall.op = "heap_extract"
    /\ hcall.heap.count = 1
    /\ count = 0
    /\ reads = ReadAt({0}, 1)
    /\ capacity >= 4
    /\ entries[3] # Uninit

(***************************************************************************)
(* watchman.c: commandt_watchman_connect and commandt_watchman_disconnect  *)
(* against the descriptor table of the process.                            *)
(***************************************************************************)
MaxFds == 3

\* The descriptors the process can hold.
Descriptors == 0..(MaxFds - 1)

\* The system call of commandt_watchman_connect that fails, if any.
ConnectFailures == {"none", "socket", "connect", "F_GETFL", "F_SETFL"}

\* The file status flags the system may report for a new socket.
SocketFlags == {{"O_RDWR"}, {"O_RDWR", "O_NONBLOCK"}}

\* socket() returns the lowest descriptor that is not open.
LowestFree(table) ==
    CHOOSE fd \in Descriptors \ DOMAIN table :
        \A other \in Descriptors \ DOMAIN table : fd <= other

\* The table with fd open.
Opened(table, fd, flags, connected) ==
    [d \in DOMAIN table \cup {fd} |->
        IF d = fd THEN [flags |-> flags, connected |-> connected]
        ELSE table[d]]

\* commandt_watchman_connect(socket_path) on a descriptor table; `fail` is
\* the system call that fails and `flags` what F_GETFL reports.  The result
\* holds the table afterwards, the value returned and the descriptor that
\* socket() opened (-1 if none).
commandt_watchman_connect(table, fail, flags) ==
    IF fail = "socket"
    THEN [fds |-> table, ret |-> -1, opened |-> -1]
    ELSE With(LowestFree(table), LAMBDA fd :
        IF fail = "connect"
        THEN [fds |-> Opened(table, fd, flags, FALSE), ret |-> -1,
              opened |-> fd]
        ELSE IF fail \in {"F_GETFL", "F_SETFL"}
        THEN [fds |-> Opened(table, fd, flags, TRUE), ret |-> -1,
              opened |-> fd]
        ELSE [fds |-> Opened(table, fd, flags \ {"O_NONBLOCK"}, TRUE),
              ret |-> fd, opened |-> fd])

ConnectInit ==
    /\ IdleSockets
    /\ IdleHeap
    /\ IdleStream
    /\ IdleCodec
    /\ IdleQueries
    /\ IdleRequest
    /\ IdleSteps

\* A call commandt_watchman_connect(socket_path).  socket() fails when the
\* table is full, and may fail otherwise.
Connect(fail, flags) ==
    /\ (DOMAIN fds = Descriptors) => fail = "socket"
    /\ \E r \in {commandt_watchman_connect(fds, fail, flags)} :
           /\ fds' = r.fds
           /\ conn' = [op |-> "commandt_watchman_connect", fail |-> fail,
                       ret |-> r.ret, opened |-> r.opened]
    /\ UNCHANGED <<heapVars, streamVars, codecVars, queryVars, requestVars,
                   stepVars>>

\* A call commandt_watchman_disconnect(socket): close() succeeds on an open
\* descriptor and fails with EBADF on any other.
Disconnect(socket) ==
    /\ fds' = [d \in DOMAIN fds \ {socket} |-> fds[d]]
    /\ conn' = [op |-> "commandt_watchman_disconnect", fail |-> "none",
                ret |-> socket, opened |-> -1,
                errno |-> IF socket \in DOMAIN fds THEN "none" ELSE "EBADF"]
    /\ UNCHANGED <<heapVars, streamVars, codecVars, queryVars, requestVars,
                   stepVars>>

ConnectNext ==
    \/ \E fail \in ConnectFailures, flags \in SocketFlags : Connect(fail, flags)
    \/ \E socket \in Descriptors : Disconnect(socket)

ConnectSpec == ConnectInit /\ [][ConnectNext]_vars

AfterConnect == conn.op = "commandt_watchman_connect"

\* C30: commandt_watchman_connect returns -1 when socket creation, connect or
\* either fcntl step fails, and otherwise returns a handle on which
\* O_NONBLOCK is cleared; whenever it returns -1, no socket opened by that
\* call remains open.
C30_ConnectFailsClean ==
    AfterConnect =>
        /\ (conn.fail # "none") => conn.ret = -1
        /\ (conn.fail = "none")
            => /\ conn.ret \in DOMAIN fds
               /\ fds[conn.ret].connected
               /\ "O_NONBLOCK" \notin fds[conn.ret].flags
        /\ (conn.ret = -1) => conn.opened \notin DOMAIN fds

\* What the code holds to: -1 on every failure, otherwise a connected handle
\* with O_NONBLOCK cleared; a failed socket() opens nothing, and after a
\* failed connect() or fcntl() the socket the call opened is still open.
ConnectLeaksOnLateFailure ==
    AfterConnect =>
        /\ (conn.fail # "none") <=> (conn.ret = -1)
        /\ (conn.fail = "none")
            => /\ conn.ret = conn.opened
               /\ conn.ret \in DOMAIN fds
               /\ fds[conn.ret].connected
               /\ "O_NONBLOCK" \notin fds[conn.ret].flags
        /\ (conn.fail = "socket") => conn.opened = -1
        /\ (conn.fail \in {"connect", "F_GETFL", "F_SETFL"})
            => conn.opened \in DOMAIN fds

====
